---- MODULE Spec2Model ----
(***************************************************************************)
(* Model of the gravity control plane core:                                *)
(*   - the agent-side command executor (lib/rpc/server: osExec,            *)
(*     osCommand.exec, streamWriter) streaming events over one stream;     *)
(*   - the operation accessors and state transitions (lib/ops:             *)
(*     Get*Operation*, CompleteOperation, FailOperation,                   *)
(*     FailOperationAndResetCluster) over an operator backend.             *)
(***************************************************************************)
EXTENDS Integers, Sequences, FiniteSets, TLC

VARIABLES
    \* ---- command executor ----
    cmds,       \* cmds[c]: the seq field of osCommand object c
    pc,         \* pc[r]: position of request r inside osExec / exec
    args,       \* args[r]: req.Args of request r
    seq,        \* seq[r]: exec's local variable seq
    proc,       \* proc[r]: the external process of request r
    pipes,      \* pipes[r][fd]: bytes written by the process, not yet forwarded
    written,    \* written[r]: number of chunks the process has written so far
    copier,     \* copier[r][fd]: where the output-copying worker of fd is
    copyErr,    \* copyErr[r][fd]: the worker of fd stopped on a Write error: the pipe is closed
    cancelled,  \* cancelled[r]: the request's context is cancelled
    stream,     \* the messages passed to stream.Send, in call order
    ret,        \* ret[r]: the value returned by osExec
    faults,     \* number of failed Sends and cancellations so far
    \* ---- operations ----
    operations, \* the backend's operations of the cluster, most recent first
    progress,   \* progress[id]: the progress entries the backend holds for operation id
    siteActive, \* whether the cluster is in the active state
    clock,      \* time.Now()
    calls,      \* the backend calls logged for the most recent handler
    res,        \* what the most recent handler returned
    order,      \* the order in which the backend lists operations
    accounts,   \* the accounts the backend holds, in creation order
    pend,       \* pend[c]: the handler caller c is in, between two of its backend calls
    \* ---- context helpers ----
    ctx,        \* the request context: the values attached, most recent first
    got,        \* what the most recent retrieval from ctx returned
    \* ---- discovery client ----
    rpcs,       \* the discovery calls made so far, with what each returned
    \* ---- access control ----
    acl,        \* the most recent call through OperatorACL: its checks and delegations
    roles,      \* roles[name]: the role of that name the wrapped operator holds
    deleting,   \* the DeleteRole call that has looked its role up and not yet deleted it
    \* ---- helm charts ----
    chart       \* the most recent chart filename built and parsed

execVars == <<cmds, pc, args, seq, proc, pipes, written, copier, copyErr, cancelled, stream, ret, faults>>
opsVars == <<operations, progress, siteActive, clock, calls, res, order, accounts, pend>>
ctxVars == <<ctx, got>>
rpcVars == <<rpcs>>
aclVars == <<acl, roles, deleting>>
helmVars == <<chart>>
vars == <<cmds, pc, args, seq, proc, pipes, written, copier, copyErr, cancelled, stream, ret, faults,
          operations, progress, siteActive, clock, calls, res, order, accounts, pend,
          ctx, got, rpcs, acl, roles, deleting, chart>>

\* what the command executor, and what the operations, leave alone
nonExecVars == <<opsVars, ctxVars, rpcVars, aclVars, helmVars>>
nonOpsVars == <<execVars, ctxVars, rpcVars, aclVars, helmVars>>

(***************************************************************************)
(* Errors.  An error value keeps its kind, the messages wrapped around it, *)
(* the fields added to it and whether a trace was attached.                *)
(***************************************************************************)
\* syscall.WaitStatus of a process: exited with a status, or ended by a signal
Exited(code) == [exited |-> TRUE, status |-> code, signal |-> ""]
Signaled(sig) == [exited |-> FALSE, status |-> 0, signal |-> sig]
NoStatus == [exited |-> FALSE, status |-> 0, signal |-> ""]

Nil == [kind |-> "nil", msgs |-> <<>>, path |-> "", traced |-> FALSE, sys |-> NoStatus]

NewError(kind) == [kind |-> kind, msgs |-> <<>>, path |-> "", traced |-> FALSE, sys |-> NoStatus]

\* trace.Wrap(err): nil stays nil, otherwise the same error with a trace
Wrap(err) == IF err = Nil THEN Nil ELSE [err EXCEPT !.traced = TRUE]

\* trace.Wrap(err, message)
WrapMsg(err, m) == IF err = Nil THEN Nil
                   ELSE [err EXCEPT !.traced = TRUE, !.msgs = <<m>> \o @]

\* (*TraceErr).AddField("path", p)
AddField(err, p) == IF err = Nil THEN Nil ELSE [err EXCEPT !.path = p]

\* the error as the backend or the OS produced it, without what Wrap added
Cause(err) == [err EXCEPT !.traced = FALSE, !.msgs = <<>>, !.path = ""]

(***************************************************************************)
(* The command executor.                                                   *)
(***************************************************************************)
\* number of command requests arriving on the connection
NumRequests == 1
\* number of command requests arriving when they are raced against each other
NumConcurrent == 2
\* number of failed Sends and cancellations
MaxFaults == 1

Requests == 1 .. (IF NumRequests > NumConcurrent THEN NumRequests ELSE NumConcurrent)

\* a Send may fail, and a context be cancelled, while the fault budget lasts
Fault(happens) ==
    /\ happens => faults < MaxFaults
    /\ faults' = IF happens THEN faults + 1 ELSE faults

ExitCodeUndefined == -1

STDOUT == "STDOUT"
STDERR == "STDERR"
FDs == {STDOUT, STDERR}

SIGKILL == "SIGKILL"
SIGPIPE == "SIGPIPE"

\* The commands requested, and what each does when run: whether the
\* executable can be started, the chunks it writes and how it ends.
CmdTrue == <<"true">>
CmdFalse == <<"false">>
CmdMissing == <<"/nonexistent">>
CmdExit2 == <<"sh", "-c", "exit 2">>
CmdEcho == <<"sh", "-c", "echo out; echo err >&2">>
CmdKill == <<"sh", "-c", "kill -9 $$">>
CmdEcho2 == <<"sh", "-c", "echo a; sleep 1; echo b">>

ArgVectors == {CmdTrue, CmdFalse, CmdExit2, CmdMissing, CmdEcho, CmdKill, CmdEcho2}

Program(a) ==
    CASE a = CmdTrue    -> [found |-> TRUE,  writes |-> <<>>, ws |-> Exited(0)]
      [] a = CmdFalse   -> [found |-> TRUE,  writes |-> <<>>, ws |-> Exited(1)]
      [] a = CmdExit2   -> [found |-> TRUE,  writes |-> <<>>, ws |-> Exited(2)]
      [] a = CmdMissing -> [found |-> FALSE, writes |-> <<>>, ws |-> NoStatus]
      [] a = CmdEcho    -> [found |-> TRUE,
                            writes |-> << [fd |-> STDOUT, data |-> <<"o", "u", "t", "\n">>],
                                          [fd |-> STDERR, data |-> <<"e", "r", "r", "\n">>] >>,
                            ws |-> Exited(0)]
      [] a = CmdKill    -> [found |-> TRUE,  writes |-> <<>>, ws |-> Signaled(SIGKILL)]
      [] a = CmdEcho2   -> [found |-> TRUE,
                            writes |-> << [fd |-> STDOUT, data |-> <<"a", "\n">>],
                                          [fd |-> STDOUT, data |-> <<"b", "\n">>] >>,
                            ws |-> Exited(0)]

\* the name of the executable holds a path separator
HasSeparator(name) == name = CmdMissing[1]

\* exec.LookPath(name): where the directories of PATH hold the executable; it
\* is one of these, depending on the host
LookPath(name) == {"/usr/bin/" \o name, "/bin/" \o name}

\* exec.CommandContext(ctx, req.Args[0], ...): cmd.Path is the name when it
\* holds a separator and what LookPath found otherwise
CommandPath(a) == IF HasSeparator(a[1]) THEN {a[1]} ELSE LookPath(a[1])

\* int32 arithmetic of atomic.AddInt32 (d > 0): the sum wraps around past MaxInt32
MaxInt32 == 2147483647
AddInt32(x, d) == IF x > MaxInt32 - d
                  THEN (x - MaxInt32 - 1) + (d - MaxInt32 - 1)
                  ELSE x + d

\* int32(exitCode): an exit code is within the int32 range
Int32(x) == x

\* osExec: cmd := &osCommand{} -- the osCommand object request r executes on
NewCommand(r) == r

\* (*os.ProcessState).Success
Success(ws) == ws.exited /\ ws.status = 0

\* syscall.WaitStatus.ExitStatus: -1 unless the process exited
ExitStatus(ws) == IF ws.exited THEN ws.status ELSE -1

\* *exec.ExitError of a process that did not end successfully
ExitError(ws) == [NewError("ExitError") EXCEPT !.sys = ws]

\* pb.EncodeError
NoError == [set |-> FALSE, message |-> ""]
EncodeError(err) == IF err = Nil THEN NoError ELSE [set |-> TRUE, message |-> err.kind]

\* The messages of the stream.  req names the exec call that made the Send
\* (history only: it is not part of the wire message).
newCommandStartedEvent(r, s, a) ==
    [req |-> r, type |-> "ExecStarted", seq |-> s, args |-> a,
     fd |-> "", data |-> <<>>, exitCode |-> 0, error |-> NoError]

\* newCommandCompletedEvent that leaves Seq unset
newCommandCompletedEventNoSeq(r, s) ==
    [req |-> r, type |-> "ExecCompleted", seq |-> 0, args |-> <<>>,
     fd |-> "", data |-> <<>>, exitCode |-> 0, error |-> NoError]

newCommandCompletedEvent(r, s) ==
    [req |-> r, type |-> "ExecCompleted", seq |-> s, args |-> <<>>,
     fd |-> "", data |-> <<>>, exitCode |-> 0, error |-> NoError]

newCommandCompletedWithErrorEvent(r, s, exitCode, err) ==
    [req |-> r, type |-> "ExecCompleted", seq |-> s, args |-> <<>>,
     fd |-> "", data |-> <<>>, exitCode |-> Int32(exitCode), error |-> EncodeError(err)]

ExecOutputEvent(r, s, fd, p) ==
    [req |-> r, type |-> "ExecOutput", seq |-> s, args |-> <<>>,
     fd |-> fd, data |-> p, exitCode |-> 0, error |-> NoError]

\* exec that reports the status field whether or not the process exited
exitCodeOfStatus(err) == IF err.kind = "ExitError" THEN err.sys.status ELSE ExitCodeUndefined

\* exec's choice of the exit code from the error cmd.Wait returned
exitCodeOf(err) == IF err.kind = "ExitError" THEN ExitStatus(err.sys) ELSE ExitCodeUndefined

\* what cmd.Wait returns once the process has ended and the copying workers are done
WaitError(r) ==
    IF ~Success(proc[r].ws) THEN ExitError(proc[r].ws)
    ELSE IF \E fd \in FDs : copyErr[r][fd] THEN NewError("SendError")
    ELSE Nil

ExecInit ==
    /\ cmds = [c \in Requests |-> 0]
    /\ pc = [r \in Requests |-> "idle"]
    /\ args = [r \in Requests |-> <<>>]
    /\ seq = [r \in Requests |-> 0]
    /\ proc = [r \in Requests |-> [state |-> "none", ws |-> NoStatus]]
    /\ pipes = [r \in Requests |-> [fd \in FDs |-> <<>>]]
    /\ written = [r \in Requests |-> 0]
    /\ copier = [r \in Requests |-> [fd \in FDs |-> "read"]]
    /\ copyErr = [r \in Requests |-> [fd \in FDs |-> FALSE]]
    /\ cancelled = [r \in Requests |-> FALSE]
    /\ stream = <<>>
    /\ ret = [r \in Requests |-> Nil]
    /\ faults = 0

\* osExec is entered for a request: a new osCommand is created for it
OsExec(r, a) ==
    /\ pc[r] = "idle"
    /\ pc' = [pc EXCEPT ![r] = "alloc"]
    /\ args' = [args EXCEPT ![r] = a]
    /\ cmds' = [cmds EXCEPT ![NewCommand(r)] = 0]
    /\ UNCHANGED <<seq, proc, pipes, written, copier, copyErr, cancelled, stream, ret, faults, faults>>
    /\ UNCHANGED nonExecVars

\* exec: seq := atomic.AddInt32(&c.seq, 1)
ExecAllocSeq(r) ==
    /\ pc[r] = "alloc"
    /\ LET c == NewCommand(r)
           n == AddInt32(cmds[c], 1)
       IN /\ cmds' = [cmds EXCEPT ![c] = n]
          /\ seq' = [seq EXCEPT ![r] = n]
    /\ pc' = [pc EXCEPT ![r] = "start"]
    /\ UNCHANGED <<args, proc, pipes, written, copier, copyErr, cancelled, stream, ret, faults, faults>>
    /\ UNCHANGED nonExecVars

\* exec: cmd.Start() fails: the error is returned, nothing is sent
ExecStartFails(r) ==
    /\ pc[r] = "start"
    /\ cancelled[r] \/ ~Program(args[r]).found
    /\ LET err == IF cancelled[r] THEN NewError("ContextCanceled") ELSE NewError("ENOENT")
       IN \E path \in CommandPath(args[r]) :
              ret' = [ret EXCEPT ![r] = Wrap(AddField(WrapMsg(err, "failed to start"), path))]
    /\ pc' = [pc EXCEPT ![r] = "done"]
    /\ UNCHANGED <<cmds, args, seq, proc, pipes, written, copier, copyErr, cancelled, stream, faults>>
    /\ UNCHANGED nonExecVars

\* exec: cmd.Start() succeeds: the process and its output-copying workers run
ExecStart(r) ==
    /\ pc[r] = "start"
    /\ ~cancelled[r] /\ Program(args[r]).found
    /\ proc' = [proc EXCEPT ![r] = [state |-> "running", ws |-> NoStatus]]
    /\ pc' = [pc EXCEPT ![r] = "notify"]
    /\ UNCHANGED <<cmds, args, seq, pipes, written, copier, copyErr, cancelled, stream, ret, faults, faults>>
    /\ UNCHANGED nonExecVars

\* exec: notifyAndLogError(stream, newCommandStartedEvent(seq, req.Args));
\* a failed Send is logged only
ExecNotifyStarted(r, sendOK) ==
    /\ pc[r] = "notify"
    /\ stream' = Append(stream, newCommandStartedEvent(r, seq[r], args[r]))
    /\ pc' = [pc EXCEPT ![r] = "wait"]
    /\ UNCHANGED <<cmds, args, seq, proc, pipes, written, copier, copyErr, cancelled, ret>>
    /\ Fault(~sendOK)
    /\ UNCHANGED nonExecVars

\* the process writes its next chunk to its stdout or stderr pipe, where it
\* follows the bytes that have not been read yet; once the copying worker of
\* that descriptor has stopped the pipe is closed and the write ends the
\* process with SIGPIPE
ProcWrite(r) ==
    /\ proc[r].state = "running"
    /\ written[r] < Len(Program(args[r]).writes)
    /\ LET w == Program(args[r]).writes[written[r] + 1]
       IN IF copyErr[r][w.fd]
          THEN /\ proc' = [proc EXCEPT ![r] = [state |-> "exited", ws |-> Signaled(SIGPIPE)]]
               /\ UNCHANGED <<pipes, written>>
          ELSE /\ pipes' = [pipes EXCEPT ![r][w.fd] = @ \o w.data]
               /\ written' = [written EXCEPT ![r] = @ + 1]
               /\ UNCHANGED proc
    /\ UNCHANGED <<cmds, pc, args, seq, copier, copyErr, cancelled, stream, ret, faults, faults>>
    /\ UNCHANGED nonExecVars

\* the process ends by itself
ProcExit(r) ==
    /\ proc[r].state = "running"
    /\ written[r] = Len(Program(args[r]).writes)
    /\ proc' = [proc EXCEPT ![r] = [state |-> "exited", ws |-> Program(args[r]).ws]]
    /\ UNCHANGED <<cmds, pc, args, seq, pipes, written, copier, copyErr, cancelled, stream, ret, faults, faults>>
    /\ UNCHANGED nonExecVars

\* the request's context is cancelled
Cancel(r) ==
    /\ pc[r] \in {"alloc", "start", "notify", "wait"}
    /\ ~cancelled[r]
    /\ cancelled' = [cancelled EXCEPT ![r] = TRUE]
    /\ UNCHANGED <<cmds, pc, args, seq, proc, pipes, written, copier, copyErr, stream, ret>>
    /\ Fault(TRUE)
    /\ UNCHANGED nonExecVars

\* exec.CommandContext: the process is killed once the context is done
ProcKill(r) ==
    /\ cancelled[r]
    /\ proc[r].state = "running"
    /\ proc' = [proc EXCEPT ![r] = [state |-> "exited", ws |-> Signaled(SIGKILL)]]
    /\ UNCHANGED <<cmds, pc, args, seq, pipes, written, copier, copyErr, cancelled, stream, ret, faults, faults>>
    /\ UNCHANGED nonExecVars

\* streamWriter.Write is called by the copying worker of descriptor fd with what
\* its read of the pipe returned: every byte written and not yet read (the
\* chunks are far shorter than the worker's buffer), so that writes the worker
\* has not kept up with arrive as one chunk; Write passes it to stream.Send as
\* an output event, and waits for the Send
StreamWrite(r, fd) ==
    /\ proc[r].state # "none"
    /\ copier[r][fd] = "read"
    /\ pipes[r][fd] # <<>>
    /\ stream' = Append(stream, ExecOutputEvent(r, seq[r], fd, pipes[r][fd]))
    /\ pipes' = [pipes EXCEPT ![r][fd] = <<>>]
    /\ copier' = [copier EXCEPT ![r][fd] = "send"]
    /\ UNCHANGED <<cmds, pc, args, seq, proc, written, copyErr, cancelled, ret, faults>>
    /\ UNCHANGED nonExecVars

\* stream.Send returns to streamWriter.Write: the worker reads the pipe again
\* when the chunk was sent; when the Send failed Write returns the error and
\* the worker has its copy loop to leave
StreamSent(r, fd, sendOK) ==
    /\ copier[r][fd] = "send"
    /\ copier' = [copier EXCEPT ![r][fd] = IF sendOK THEN "read" ELSE "failed"]
    /\ UNCHANGED <<cmds, pc, args, seq, proc, pipes, written, copyErr, cancelled, stream, ret>>
    /\ Fault(~sendOK)
    /\ UNCHANGED nonExecVars

\* the worker whose Write returned an error stops: it closes its end of the
\* pipe, and what the pipe holds is never read
CopyStops(r, fd) ==
    /\ copier[r][fd] = "failed"
    /\ copier' = [copier EXCEPT ![r][fd] = "stopped"]
    /\ copyErr' = [copyErr EXCEPT ![r][fd] = TRUE]
    /\ UNCHANGED <<cmds, pc, args, seq, proc, pipes, written, cancelled, stream, ret, faults>>
    /\ UNCHANGED nonExecVars

\* exec: cmd.Wait() returns once the process has ended and both copying workers
\* are done; the completed event is sent and exec returns
ExecWait(r, sendOK) ==
    /\ pc[r] = "wait"
    /\ proc[r].state = "exited"
    /\ \A fd \in FDs : copyErr[r][fd] \/ (copier[r][fd] = "read" /\ pipes[r][fd] = <<>>)
    /\ LET err == WaitError(r)
       IN IF err = Nil
          THEN /\ stream' = Append(stream, newCommandCompletedEvent(r, seq[r]))
               /\ ret' = [ret EXCEPT ![r] = Wrap(Nil)]
          ELSE /\ stream' = Append(stream,
                      newCommandCompletedWithErrorEvent(r, seq[r], exitCodeOf(err), err))
               /\ ret' = [ret EXCEPT ![r] = Wrap(Wrap(err))]
    /\ pc' = [pc EXCEPT ![r] = "done"]
    /\ UNCHANGED <<cmds, args, seq, proc, pipes, written, copier, copyErr, cancelled>>
    /\ Fault(~sendOK)
    /\ UNCHANGED nonExecVars

ExecNext(Reqs, Commands) ==
    \/ \E r \in Reqs, a \in Commands : OsExec(r, a)
    \/ \E r \in Reqs : ExecAllocSeq(r)
    \/ \E r \in Reqs : ExecStartFails(r)
    \/ \E r \in Reqs : ExecStart(r)
    \/ \E r \in Reqs, sendOK \in BOOLEAN : ExecNotifyStarted(r, sendOK)
    \/ \E r \in Reqs : ProcWrite(r)
    \/ \E r \in Reqs : ProcExit(r)
    \/ \E r \in Reqs : Cancel(r)
    \/ \E r \in Reqs : ProcKill(r)
    \/ \E r \in Reqs, fd \in FDs : StreamWrite(r, fd)
    \/ \E r \in Reqs, fd \in FDs, sendOK \in BOOLEAN : StreamSent(r, fd, sendOK)
    \/ \E r \in Reqs, fd \in FDs : CopyStops(r, fd)
    \/ \E r \in Reqs, sendOK \in BOOLEAN : ExecWait(r, sendOK)

(***************************************************************************)
(* Operations: the backend, the accessors and the state transitions.       *)
(***************************************************************************)
\* number of operations the cluster accumulates
MaxOps == 2
\* number of transition calls made
MaxCalls == 2
\* number of transition calls made before the accessors are tried
MaxQueryCalls == 1
\* number of transition calls made when every failure message is tried
MaxFailCalls == 1
\* length of the failure messages tried
MaxMsgLen == 2

OperationInstall == "operation_install"
OperationUninstall == "operation_uninstall"
OperationUpdate == "operation_update"
OperationExpand == "operation_expand"
OperationShrink == "operation_shrink"
OpTypes == {OperationInstall, OperationUninstall, OperationUpdate, OperationExpand, OperationShrink}

OperationStateInProgress == "in_progress"
OperationStateCompleted == "completed"
OperationStateFailed == "failed"
TerminalStates == {OperationStateCompleted, OperationStateFailed}

ProgressStateCompleted == "completed"
ProgressStateFailed == "failed"

\* constants.FinalStep and constants.Completed
FinalStep == "FinalStep"
Completed == 100

AccountID == "system"
SiteDomain == "example.com"

\* SiteOperationKey of the operation with the given id
OpKey(id) == [AccountID |-> AccountID, SiteDomain |-> SiteDomain, OperationID |-> id]

\* Texts are sequences of characters
OperationHasCompleted == <<"O", "p", "e", "r", "a", "t", "i", "o", "n", " ", "h", "a", "s", " ", "c", "o", "m", "p", "l", "e", "t", "e", "d">>
OperationFailure == <<"O", "p", "e", "r", "a", "t", "i", "o", "n", " ", "f", "a", "i", "l", "u", "r", "e">>
OperationFailurePrefix == <<"O", "p", "e", "r", "a", "t", "i", "o", "n", " ", "f", "a", "i", "l", "u", "r", "e", ":", " ">>
DiskFull == <<"d", "i", "s", "k", " ", "f", "u", "l", "l">>

\* unicode.IsSpace on the characters used
IsSpace(c) == c \in {" ", "\t", "\n", "\r", "\f"}

RECURSIVE TrimLeft(_)
TrimLeft(s) == IF s # <<>> /\ IsSpace(Head(s)) THEN TrimLeft(Tail(s)) ELSE s

RECURSIVE TrimRight(_)
TrimRight(s) == IF s # <<>> /\ IsSpace(s[Len(s)]) THEN TrimRight(SubSeq(s, 1, Len(s) - 1)) ELSE s

\* strings.TrimSpace
TrimSpace(s) == TrimRight(TrimLeft(s))

\* fmt.Sprintf("Operation failure: %v", message)
Sprintf(message) == OperationFailurePrefix \o message

\* FailOperation's message without the prefix
FailureMessageNoPrefix(message) ==
    LET m == IF message # <<>> THEN message ELSE OperationFailure
    IN TrimSpace(m)

\* FailOperation: the message of the progress entry
FailureMessage(message) ==
    LET m == IF message # <<>> THEN Sprintf(message) ELSE OperationFailure
    IN TrimSpace(m)

\* the failure messages tried: every text over a small alphabet, and "disk full"
MsgAlphabet == {" ", "\t", "x", "y"}
RECURSIVE TextsUpTo(_)
TextsUpTo(n) == IF n = 0 THEN {<<>>}
                ELSE TextsUpTo(n - 1) \cup
                     {Append(t, c) : t \in {u \in TextsUpTo(n - 1) : Len(u) = n - 1}, c \in MsgAlphabet}
AllMessages == TextsUpTo(MaxMsgLen) \cup {DiskFull}
OpsMessages == {<<>>, DiskFull}

\* errors of the backend
BackendErrors == {NewError("ConnectionProblem")}
BackendOutcomes == BackendErrors \cup {Nil}

NotFound == NewError("NotFound")

NoProgress == [SiteDomain |-> "", OperationID |-> 0, Step |-> "", Completion |-> 0,
               State |-> "", Message |-> <<>>, Created |-> 0]

\* ---- backend (operator) ----
\* OperationsFilter
Filter(types, last, active, complete, finished) ==
    [Types |-> types, Last |-> last, Active |-> active, Complete |-> complete, Finished |-> finished]

FilterMatch(f, op) ==
    /\ f.Types = {} \/ op.type \in f.Types
    /\ f.Active => op.state \notin TerminalStates
    /\ f.Complete => op.state = OperationStateCompleted
    /\ f.Finished => op.state \in TerminalStates

\* The order of the backend's listings: last-to-first is what the backend
\* guarantees; first-to-last is a backend that lists every match in the
\* opposite order.
LastToFirst == "last-to-first"
FirstToLast == "first-to-last"
Orders == {LastToFirst, FirstToLast}

Reverse(s) == [i \in 1 .. Len(s) |-> s[Len(s) + 1 - i]]

\* operator.GetSiteOperations(siteKey, filter): the matching operations in the
\* backend's order, or the backend's error; stored is what the backend held
\* when it served the call
GetSiteOperations(stored, f, berr) ==
    IF berr # Nil THEN [err |-> berr, ops |-> <<>>]
    ELSE LET Test(op) == FilterMatch(f, op)
             m == SelectSeq(stored, Test)
         IN IF order = FirstToLast THEN [err |-> Nil, ops |-> Reverse(m)]
            ELSE [err |-> Nil, ops |-> IF f.Last /\ Len(m) > 1 THEN SubSeq(m, 1, 1) ELSE m]

\* operator.GetSiteOperationProgress(key): the latest progress entry
GetSiteOperationProgress(id, berr) ==
    IF berr # Nil THEN [err |-> berr, entry |-> NoProgress]
    ELSE IF progress[id] = <<>> THEN [err |-> NotFound, entry |-> NoProgress]
    ELSE [err |-> Nil, entry |-> progress[id][Len(progress[id])]]

IndexOf(id) == CHOOSE i \in 1 .. Len(operations) : operations[i].id = id

OpIDs == {operations[i].id : i \in 1 .. Len(operations)}

OpState(id) == operations[IndexOf(id)].state

\* the request of a SetOperationState call, as recorded in calls
\* (history) a mutating backend call as recorded in calls: the request and the
\* error the backend answered
SetOperationStateCall(key, req, berr) ==
    [progress |-> req.Progress, err |-> berr, state |-> req.State, key |-> key,
     call |-> "SetOperationState"]

ActivateSiteCall(req, berr) ==
    [progress |-> NoProgress, err |-> berr, state |-> "",
     key |-> [AccountID |-> req.AccountID, SiteDomain |-> req.SiteDomain, OperationID |-> 0],
     call |-> "ActivateSite"]

\* ---- state transitions ----
\* CompleteOperation that marks the operation in progress again
CompleteOperationReopens(key) ==
    [State |-> OperationStateInProgress,
     Progress |-> [SiteDomain |-> key.SiteDomain, OperationID |-> key.OperationID,
                   Step |-> FinalStep, Completion |-> Completed,
                   State |-> ProgressStateCompleted,
                   Message |-> OperationHasCompleted, Created |-> clock]]

\* CompleteOperation that reports the completion without the final step
CompleteOperationNoStep(key) ==
    [State |-> OperationStateCompleted,
     Progress |-> [SiteDomain |-> key.SiteDomain, OperationID |-> key.OperationID,
                   Step |-> "", Completion |-> 0,
                   State |-> ProgressStateCompleted,
                   Message |-> OperationHasCompleted, Created |-> clock]]

\* CompleteOperation: the SetOperationStateRequest it issues
CompleteOperation(key) ==
    [State |-> OperationStateCompleted,
     Progress |-> [SiteDomain |-> key.SiteDomain, OperationID |-> key.OperationID,
                   Step |-> FinalStep, Completion |-> Completed,
                   State |-> ProgressStateCompleted,
                   Message |-> OperationHasCompleted, Created |-> clock]]

\* FailOperation whose progress entry reports completion
FailOperationCompletedEntry(key, message) ==
    [State |-> OperationStateFailed,
     Progress |-> [SiteDomain |-> key.SiteDomain, OperationID |-> key.OperationID,
                   Step |-> FinalStep, Completion |-> Completed,
                   State |-> ProgressStateCompleted,
                   Message |-> FailureMessage(message), Created |-> clock]]

\* FailOperation: the SetOperationStateRequest it issues
FailOperation(key, message) ==
    [State |-> OperationStateFailed,
     Progress |-> [SiteDomain |-> key.SiteDomain, OperationID |-> key.OperationID,
                   Step |-> FinalStep, Completion |-> Completed,
                   State |-> ProgressStateFailed,
                   Message |-> FailureMessage(message), Created |-> clock]]

\* operator.SetOperationState(ctx, key, req): on success the operation takes the
\* requested state and the progress entry is appended
SetOperationState(key, req, berr) ==
    IF berr = Nil
    THEN /\ operations' = [operations EXCEPT ![IndexOf(key.OperationID)].state = req.State]
         /\ progress' = [progress EXCEPT ![key.OperationID] = Append(@, req.Progress)]
    ELSE UNCHANGED <<operations, progress>>

\* operator.ActivateSite(req): on success the cluster is active again
ActivateSite(req, berr) ==
    IF berr = Nil THEN siteActive' = TRUE ELSE UNCHANGED siteActive

\* callers that may be inside a handler at the same time
NumCallers == 2
Callers == 1 .. NumCallers

\* the callers that run accessors: an accessor between its reads changes
\* nothing another caller sees, so that one reader shows every interleaving of
\* an accessor with the callers that write
Readers == {1}

\* a caller inside a handler, between two of the handler's backend calls: the
\* handler, what it was given, the calls it has made and, when a read of the
\* backend decides what follows, what the backend stored when it served it
InCall(fn, arg, made, stored) == [calls |-> made, stored |-> stored, fn |-> fn, arg |-> arg]

\* a caller outside every handler
NoCall == InCall("", <<>>, <<>>, <<>>)

\* a read of the backend, as logged in calls
ReadCall(name, err) ==
    [progress |-> NoProgress, err |-> err, state |-> "", key |-> OpKey(0), call |-> name]

\* what a handler returned: the operations and progress it returned, its error,
\* and (history) what the backend listing gave it, the message and the key it
\* was given and the reads it made of the backend
Result(fn, l, ops, entry, err) ==
    [progress |-> entry, err |-> err, ops |-> ops, key |-> OpKey(0), fn |-> fn,
     arg |-> <<>>, listed |-> l.ops, listErr |-> l.err, reads |-> <<>>]

NoListing == [err |-> Nil, ops |-> <<>>]

NotFoundError(what) == [NotFound EXCEPT !.msgs = <<what>>]

\* ---- accessors ----
\* the result of an accessor whose only read was operator.GetSiteOperations
Listed(r) == [r EXCEPT !.reads = <<ReadCall("GetSiteOperations", r.listErr)>>]

\* FirstWithProgress that returns the operation without progress when the
\* progress cannot be fetched
FirstWithProgressPartial(fn, l, perr, what) ==
    IF l.err # Nil THEN Listed(Result(fn, l, <<>>, NoProgress, Wrap(l.err)))
    ELSE IF Len(l.ops) = 0 THEN Listed(Result(fn, l, <<>>, NoProgress, NotFoundError(what)))
    ELSE LET op == l.ops[1]
             p == GetSiteOperationProgress(op.id, perr)
         IN [Result(fn, l, <<op>>, p.entry, Nil)
               EXCEPT !.reads = <<ReadCall("GetSiteOperations", l.err),
                                  ReadCall("GetSiteOperationProgress", p.err)>>]

\* "apply the filter, require one result, take the first, fetch its progress"
FirstWithProgress(fn, l, perr, what) ==
    IF l.err # Nil THEN Listed(Result(fn, l, <<>>, NoProgress, Wrap(l.err)))
    ELSE IF Len(l.ops) = 0 THEN Listed(Result(fn, l, <<>>, NoProgress, NotFoundError(what)))
    ELSE LET op == l.ops[1]
             p == GetSiteOperationProgress(op.id, perr)
             r == IF p.err # Nil THEN Result(fn, l, <<>>, NoProgress, Wrap(p.err))
                  ELSE Result(fn, l, <<op>>, p.entry, Nil)
         IN [r EXCEPT !.reads = <<ReadCall("GetSiteOperations", l.err),
                                  ReadCall("GetSiteOperationProgress", p.err)>>]

\* "apply the filter, require one result, take the first"
First(fn, l, what) ==
    IF l.err # Nil THEN Listed(Result(fn, l, <<>>, NoProgress, Wrap(l.err)))
    ELSE IF Len(l.ops) = 0 THEN Listed(Result(fn, l, <<>>, NoProgress, NotFoundError(what)))
    ELSE Listed(Result(fn, l, <<l.ops[1]>>, NoProgress, Nil))

\* "apply the filter, require one result, return them all"
All(fn, l, what) ==
    IF l.err # Nil THEN Listed(Result(fn, l, <<>>, NoProgress, Wrap(l.err)))
    ELSE IF Len(l.ops) = 0 THEN Listed(Result(fn, l, <<>>, NoProgress, NotFoundError(what)))
    ELSE Listed(Result(fn, l, l.ops, NoProgress, Nil))

GetInstallOperation(stored, lerr, perr) ==
    FirstWithProgress("GetInstallOperation",
        GetSiteOperations(stored, Filter({OperationInstall}, FALSE, FALSE, FALSE, FALSE), lerr),
        perr, "no install operation found")

GetLastUninstallOperation(stored, lerr, perr) ==
    FirstWithProgress("GetLastUninstallOperation",
        GetSiteOperations(stored, Filter({OperationUninstall}, TRUE, FALSE, FALSE, FALSE), lerr),
        perr, "no uninstall operation found")

GetLastCompletedUpdateOperation(lerr) ==
    First("GetLastCompletedUpdateOperation",
        GetSiteOperations(operations, Filter({OperationUpdate}, TRUE, FALSE, TRUE, FALSE), lerr),
        "no completed update operation found")

GetCompletedInstallOperation(lerr) ==
    First("GetCompletedInstallOperation",
        GetSiteOperations(operations, Filter({OperationInstall}, TRUE, FALSE, TRUE, FALSE), lerr),
        "no completed install operation found")

GetLastOperation(stored, lerr, perr) ==
    FirstWithProgress("GetLastOperation",
        GetSiteOperations(stored, Filter({}, TRUE, FALSE, FALSE, FALSE), lerr),
        perr, "no operation found")

\* GetLastFinishedOperation that asks for completed operations only
GetLastFinishedOperationCompleteOnly(stored, lerr, perr) ==
    FirstWithProgress("GetLastFinishedOperation",
        GetSiteOperations(stored, Filter({}, TRUE, FALSE, TRUE, FALSE), lerr),
        perr, "no completed operation found")

GetLastFinishedOperation(stored, lerr, perr) ==
    FirstWithProgress("GetLastFinishedOperation",
        GetSiteOperations(stored, Filter({}, TRUE, FALSE, FALSE, TRUE), lerr),
        perr, "no completed operation found")

\* the most recently created of the operations listed
MostRecent(ops) ==
    ops[CHOOSE i \in 1 .. Len(ops) : \A j \in 1 .. Len(ops) : ops[i].created >= ops[j].created]

\* GetLastUpgradeOperation that looks for the most recent operation of the listing
GetLastUpgradeOperationSorted(lerr) ==
    LET l == GetSiteOperations(operations, Filter({OperationUpdate}, TRUE, FALSE, FALSE, FALSE), lerr)
    IN IF l.err # Nil THEN Result("GetLastUpgradeOperation", l, <<>>, NoProgress, Wrap(l.err))
       ELSE IF Len(l.ops) = 0
       THEN Result("GetLastUpgradeOperation", l, <<>>, NoProgress,
                   NotFoundError("no upgrade operation found"))
       ELSE Result("GetLastUpgradeOperation", l, <<MostRecent(l.ops)>>, NoProgress, Nil)

GetLastUpgradeOperation(lerr) ==
    First("GetLastUpgradeOperation",
        GetSiteOperations(operations, Filter({OperationUpdate}, TRUE, FALSE, FALSE, FALSE), lerr),
        "no upgrade operation found")

\* GetLastShrinkOperation without the check for an empty listing
GetLastShrinkOperationUnchecked(lerr) ==
    LET l == GetSiteOperations(operations, Filter({OperationShrink}, TRUE, FALSE, FALSE, FALSE), lerr)
    IN IF l.err # Nil THEN Result("GetLastShrinkOperation", l, <<>>, NoProgress, Wrap(l.err))
       ELSE Result("GetLastShrinkOperation", l, l.ops, NoProgress, Nil)

GetLastShrinkOperation(lerr) ==
    First("GetLastShrinkOperation",
        GetSiteOperations(operations, Filter({OperationShrink}, TRUE, FALSE, FALSE, FALSE), lerr),
        "no shrink operation found")

\* GetActiveOperations that does not ask for active operations only
GetActiveOperationsUnfiltered(lerr) ==
    All("GetActiveOperations",
        GetSiteOperations(operations, Filter({}, FALSE, FALSE, FALSE, FALSE), lerr),
        "no active operation found")

GetActiveOperations(lerr) ==
    All("GetActiveOperations",
        GetSiteOperations(operations, Filter({}, FALSE, TRUE, FALSE, FALSE), lerr),
        "no active operation found")

\* the result keeps the type asked for
GetActiveOperationsByType(opType, lerr) ==
    [All("GetActiveOperationsByType",
         GetSiteOperations(operations, Filter({opType}, FALSE, TRUE, FALSE, FALSE), lerr),
         "no active operation found with type") EXCEPT !.arg = <<opType>>]

\* ---- the install wizard's cluster ----
\* number of clusters operator.GetSites may return
MaxSites == 2

\* the i-th cluster of the system account; the first is the cluster whose
\* operations the backend holds
Site(i) == [AccountID |-> AccountID, Domain |-> SiteDomain, index |-> i]
SiteLists == {[i \in 1 .. n |-> Site(i)] : n \in 0 .. MaxSites}

BadParameter == NewError("BadParameter")

\* the reads GetInstallOperation makes of the backend
GetInstallOperationCalls(stored, lerr, perr) ==
    LET l == GetSiteOperations(stored, Filter({OperationInstall}, FALSE, FALSE, FALSE, FALSE), lerr)
    IN IF l.err # Nil \/ Len(l.ops) = 0
       THEN <<ReadCall("GetSiteOperations", l.err)>>
       ELSE <<ReadCall("GetSiteOperations", l.err),
              ReadCall("GetSiteOperationProgress", GetSiteOperationProgress(l.ops[1].id, perr).err)>>

\* GetWizardOperation that takes the first cluster of however many there are
GetWizardOperationFirstCluster(stored, clusters, serr, lerr, perr) ==
    IF serr # Nil
    THEN [calls |-> <<ReadCall("GetSites", serr)>>,
          result |-> [Result("GetWizardOperation", NoListing, <<>>, NoProgress, Wrap(serr))
                        EXCEPT !.arg = <<>>]]
    ELSE IF Len(clusters) = 0
    THEN [calls |-> <<ReadCall("GetSites", serr)>>,
          result |-> [Result("GetWizardOperation", NoListing, <<>>, NoProgress,
                             [BadParameter EXCEPT !.msgs = <<"expected 1 cluster, got">>])
                        EXCEPT !.arg = clusters]]
    ELSE LET r == GetInstallOperation(stored, lerr, perr)
         IN [calls |-> <<ReadCall("GetSites", serr)>> \o GetInstallOperationCalls(stored, lerr, perr),
             result |-> [r EXCEPT !.fn = "GetWizardOperation", !.arg = clusters,
                                  !.progress = NoProgress, !.err = Wrap(r.err)]]

\* GetWizardOperation(operator), given what GetSites returns; the result is
\* paired with the reads made of the backend
GetWizardOperation(stored, clusters, serr, lerr, perr) ==
    IF serr # Nil
    THEN [calls |-> <<ReadCall("GetSites", serr)>>,
          result |-> [Result("GetWizardOperation", NoListing, <<>>, NoProgress, Wrap(serr))
                        EXCEPT !.arg = <<>>]]
    ELSE IF Len(clusters) # 1
    THEN [calls |-> <<ReadCall("GetSites", serr)>>,
          result |-> [Result("GetWizardOperation", NoListing, <<>>, NoProgress,
                             [BadParameter EXCEPT !.msgs = <<"expected 1 cluster, got">>])
                        EXCEPT !.arg = clusters]]
    ELSE LET r == GetInstallOperation(stored, lerr, perr)
         IN [calls |-> <<ReadCall("GetSites", serr)>> \o GetInstallOperationCalls(stored, lerr, perr),
             result |-> [r EXCEPT !.fn = "GetWizardOperation", !.arg = clusters,
                                  !.progress = NoProgress, !.err = Wrap(r.err)]]

\* GetWizardCluster(operator), given what GetSites returns
GetWizardCluster(clusters, serr) ==
    LET r == IF serr # Nil
             THEN Result("GetWizardCluster", NoListing, <<>>, NoProgress, Wrap(serr))
             ELSE IF Len(clusters) # 1
             THEN [Result("GetWizardCluster", NoListing, <<>>, NoProgress,
                          [BadParameter EXCEPT !.msgs = <<"expected 1 cluster, got">>])
                     EXCEPT !.arg = clusters]
             ELSE [Result("GetWizardCluster", NoListing, <<clusters[1]>>, NoProgress, Nil)
                     EXCEPT !.arg = clusters]
    IN [r EXCEPT !.reads = <<ReadCall("GetSites", serr)>>]

\* operator.GetSiteOperation(key): the operation of the key; stored is what
\* the backend held when it served the call
GetSiteOperation(stored, id, berr) ==
    LET found == {i \in 1 .. Len(stored) : stored[i].id = id}
    IN IF berr # Nil THEN [err |-> berr, ops |-> <<>>]
       ELSE IF found = {} THEN [err |-> NotFound, ops |-> <<>>]
       ELSE [err |-> Nil, ops |-> <<stored[CHOOSE i \in found : TRUE]>>]

\* GetOperationWithProgress that marks the operation as being in progress
GetOperationWithProgressTouching(stored, id, gerr, perr) ==
    LET o == GetSiteOperation(stored, id, gerr)
        req == [State |-> OperationStateInProgress, Progress |-> NoProgress]
    IN [Result("GetOperationWithProgress", NoListing, o.ops, NoProgress, Wrap(o.err))
          EXCEPT !.key = OpKey(id),
                 !.reads = <<ReadCall("GetSiteOperation", o.err),
                             SetOperationStateCall(OpKey(id), req, Nil)>>]

\* GetOperationWithProgress(opKey, operator)
GetOperationWithProgress(stored, id, gerr, perr) ==
    LET o == GetSiteOperation(stored, id, gerr)
    IN IF o.err # Nil
       THEN [Result("GetOperationWithProgress", NoListing, <<>>, NoProgress, Wrap(o.err))
               EXCEPT !.key = OpKey(id), !.reads = <<ReadCall("GetSiteOperation", o.err)>>]
       ELSE LET p == GetSiteOperationProgress(id, perr)
                r == IF p.err # Nil
                     THEN Result("GetOperationWithProgress", NoListing, <<>>, NoProgress,
                                 Wrap(p.err))
                     ELSE Result("GetOperationWithProgress", NoListing, o.ops, p.entry, Nil)
            IN [r EXCEPT !.key = OpKey(id),
                         !.reads = <<ReadCall("GetSiteOperation", o.err),
                                     ReadCall("GetSiteOperationProgress", p.err)>>]

\* GetExpandOperation that returns the last expand operation listed
GetExpandOperationLast(cerr, lerr) ==
    IF cerr # Nil
    THEN [Result("GetExpandOperation", NoListing, <<>>, NoProgress, Wrap(cerr))
            EXCEPT !.reads = <<ReadCall("GetLocalSite", cerr)>>]
    ELSE LET l == GetSiteOperations(operations, Filter({}, FALSE, FALSE, FALSE, FALSE), lerr)
             IsExpand(op) == op.type = OperationExpand
             found == SelectSeq(l.ops, IsExpand)
             r == IF l.err # Nil
                  THEN Result("GetExpandOperation", l, <<>>, NoProgress, Wrap(l.err))
                  ELSE IF found = <<>>
                  THEN Result("GetExpandOperation", l, <<>>, NoProgress,
                              NotFoundError("expand operation not found"))
                  ELSE Result("GetExpandOperation", l, <<found[Len(found)]>>, NoProgress, Nil)
         IN [r EXCEPT !.reads = <<ReadCall("GetLocalSite", cerr),
                                  ReadCall("GetSiteOperations", l.err)>>]

\* GetExpandOperation(backend): the first expand operation among all the
\* operations of the local cluster
GetExpandOperation(cerr, lerr) ==
    IF cerr # Nil
    THEN [Result("GetExpandOperation", NoListing, <<>>, NoProgress, Wrap(cerr))
            EXCEPT !.reads = <<ReadCall("GetLocalSite", cerr)>>]
    ELSE LET l == GetSiteOperations(operations, Filter({}, FALSE, FALSE, FALSE, FALSE), lerr)
             IsExpand(op) == op.type = OperationExpand
             found == SelectSeq(l.ops, IsExpand)
             r == IF l.err # Nil
                  THEN Result("GetExpandOperation", l, <<>>, NoProgress, Wrap(l.err))
                  ELSE IF found = <<>>
                  THEN Result("GetExpandOperation", l, <<>>, NoProgress,
                              NotFoundError("expand operation not found"))
                  ELSE Result("GetExpandOperation", l, <<found[1]>>, NoProgress, Nil)
         IN [r EXCEPT !.reads = <<ReadCall("GetLocalSite", cerr),
                                  ReadCall("GetSiteOperations", l.err)>>]

FilterAccessors ==
    {"GetInstallOperation", "GetLastUninstallOperation", "GetLastCompletedUpdateOperation",
     "GetCompletedInstallOperation", "GetLastOperation", "GetLastFinishedOperation",
     "GetLastUpgradeOperation", "GetLastShrinkOperation", "GetActiveOperations",
     "GetActiveOperationsByType"}

TransitionResult(fn, message, err) ==
    [progress |-> NoProgress, err |-> err, ops |-> <<>>, key |-> OpKey(0), fn |-> fn,
     arg |-> message, listed |-> <<>>, listErr |-> Nil, reads |-> <<>>]

\* the result of a transition call, with the key the call was given
KeyedResult(fn, key, message, err) == [TransitionResult(fn, message, err) EXCEPT !.key = key]

\* ---- accounts ----

MaxOtherAccounts == 3

SystemAccountID == AccountID
SystemAccountOrg == "gravitational.io"

Account(id, org) == [ID |-> id, Org |-> org]

NewAccountRequest(id, org) == [ID |-> id, Org |-> org]

\* the accounts of other organisations
OtherAccount(i) == NewAccountRequest("account-" \o ToString(i), "org-" \o ToString(i))

AlreadyExists == NewError("AlreadyExists")

\* the backend's accounts, in creation order; stored is what the backend held
\* when it served the call
GetAccounts(stored, berr) == [accounts |-> IF berr # Nil THEN <<>> ELSE stored, err |-> berr]

\* the backend stores a new account unless one has the same identifier
CreateAccount(req, berr) ==
    IF berr # Nil THEN [accounts |-> accounts, err |-> berr, account |-> <<>>]
    ELSE IF \E i \in 1 .. Len(accounts) : accounts[i].ID = req.ID
    THEN [accounts |-> accounts, err |-> AlreadyExists, account |-> <<>>]
    ELSE [accounts |-> Append(accounts, Account(req.ID, req.Org)), err |-> Nil,
          account |-> <<Account(req.ID, req.Org)>>]

CreateAccountCall(req, err) ==
    [progress |-> NoProgress, err |-> err,
     state |-> "", key |-> [AccountID |-> req.ID, SiteDomain |-> "", OperationID |-> 0],
     call |-> "CreateAccount"]

AccountResult(account, err, made, stored) ==
    [calls |-> made,
     accounts |-> stored,
     result |-> Result("UpsertSystemAccount", NoListing, account, NoProgress, err)]

\* UpsertSystemAccount that creates the account without looking for it
UpsertSystemAccountAlwaysCreates(stored, gerr, cerr) ==
    LET l == GetAccounts(stored, gerr)
        req == NewAccountRequest(SystemAccountID, SystemAccountOrg)
        c == CreateAccount(req, cerr)
    IN IF l.err # Nil
       THEN AccountResult(<<>>, Wrap(l.err), <<ReadCall("GetAccounts", l.err)>>, accounts)
       ELSE AccountResult(c.account, Wrap(c.err),
                          <<ReadCall("GetAccounts", l.err), CreateAccountCall(req, c.err)>>,
                          c.accounts)

\* UpsertSystemAccount: the first account of the system organisation, or a new one
UpsertSystemAccount(stored, gerr, cerr) ==
    LET l == GetAccounts(stored, gerr)
        found == {i \in 1 .. Len(l.accounts) : l.accounts[i].Org = SystemAccountOrg}
        req == NewAccountRequest(SystemAccountID, SystemAccountOrg)
        c == CreateAccount(req, cerr)
    IN IF l.err # Nil
       THEN AccountResult(<<>>, Wrap(l.err), <<ReadCall("GetAccounts", l.err)>>, accounts)
       ELSE IF found # {}
       THEN LET i == CHOOSE j \in found : \A k \in found : j <= k
            IN AccountResult(<<l.accounts[i]>>, Nil, <<ReadCall("GetAccounts", l.err)>>, accounts)
       ELSE AccountResult(c.account, Wrap(c.err),
                          <<ReadCall("GetAccounts", l.err), CreateAccountCall(req, c.err)>>,
                          c.accounts)

\* an empty backend
OpsStart ==
    /\ operations = <<>>
    /\ progress = [id \in 1 .. MaxOps |-> <<>>]
    /\ siteActive = TRUE
    /\ clock = 0
    /\ calls = <<>>
    /\ res = Result("", NoListing, <<>>, NoProgress, Nil)
    /\ accounts = <<>>
    /\ pend = [c \in Callers |-> NoCall]

OpsInit ==
    /\ OpsStart
    /\ order = LastToFirst

\* a cluster operation of some type begins (the orchestrator's part): the
\* backend lists it first and the cluster is busy
CreateOperation(type) ==
    /\ Len(operations) < MaxOps
    /\ LET id == Len(operations) + 1
       IN operations' = <<[id |-> id, type |-> type, state |-> OperationStateInProgress,
                           created |-> id]>> \o operations
    /\ siteActive' = FALSE
    /\ calls' = <<>>
    /\ res' = Result("", NoListing, <<>>, NoProgress, Nil)
    /\ UNCHANGED <<progress, clock>>
    /\ UNCHANGED <<order, accounts, pend, nonOpsVars>>

\* number of transition calls made so far: the clock ticks once per call
NumCalls == clock

CallCompleteOperation(id, berr) ==
    /\ NumCalls < MaxCalls
    /\ id \in OpIDs
    /\ LET key == OpKey(id)
           req == CompleteOperation(key)
       IN /\ SetOperationState(key, req, berr)
          /\ calls' = <<SetOperationStateCall(key, req, berr)>>
          /\ res' = KeyedResult("CompleteOperation", key, <<>>, berr)
    /\ clock' = clock + 1
    /\ UNCHANGED siteActive
    /\ UNCHANGED <<order, accounts, pend, nonOpsVars>>

\* FailOperation that addresses the most recent operation whatever its key
CallFailOperationFirstKey(id, message, berr) ==
    /\ NumCalls < MaxCalls
    /\ id \in OpIDs
    /\ LET key == OpKey(operations[1].id)
           req == FailOperation(key, message)
       IN /\ SetOperationState(key, req, berr)
          /\ calls' = <<SetOperationStateCall(key, req, berr)>>
          /\ res' = KeyedResult("FailOperation", OpKey(id), message, berr)
    /\ clock' = clock + 1
    /\ UNCHANGED siteActive
    /\ UNCHANGED <<order, accounts, pend, nonOpsVars>>

CallFailOperation(id, message, berr) ==
    /\ NumCalls < MaxCalls
    /\ id \in OpIDs
    /\ LET key == OpKey(id)
           req == FailOperation(key, message)
       IN /\ SetOperationState(key, req, berr)
          /\ calls' = <<SetOperationStateCall(key, req, berr)>>
          /\ res' = KeyedResult("FailOperation", key, message, berr)
    /\ clock' = clock + 1
    /\ UNCHANGED siteActive
    /\ UNCHANGED <<order, accounts, pend, nonOpsVars>>

\* FailOperationAndResetCluster that activates the cluster whatever FailOperation returned
FailOperationAndResetClusterAlways(key, message, berr, aerr) ==
    [err |-> IF berr # Nil THEN Wrap(berr) ELSE Wrap(aerr),
     req |-> FailOperation(key, message),
     areq |-> [AccountID |-> key.AccountID, SiteDomain |-> key.SiteDomain],
     reset |-> TRUE]

\* FailOperationAndResetCluster that ignores the error of ActivateSite
FailOperationAndResetClusterLenient(key, message, berr, aerr) ==
    [err |-> IF berr # Nil THEN Wrap(berr) ELSE Nil,
     req |-> FailOperation(key, message),
     areq |-> [AccountID |-> key.AccountID, SiteDomain |-> key.SiteDomain],
     reset |-> berr = Nil]

\* FailOperationAndResetCluster: FailOperation, then ActivateSite unless it
\* failed. Given what the SetOperationState call of FailOperation returned
\* (berr) and what ActivateSite returns (aerr): the two requests, whether
\* ActivateSite is called, and what the handler returns
FailOperationAndResetCluster(key, message, berr, aerr) ==
    [err |-> IF berr # Nil THEN Wrap(berr) ELSE Wrap(aerr),
     req |-> FailOperation(key, message),
     areq |-> [AccountID |-> key.AccountID, SiteDomain |-> key.SiteDomain],
     reset |-> berr = Nil]

\* FailOperationAndResetCluster is called by c: FailOperation is run; the
\* handler returns its error, or goes on to ActivateSite
CallFailOperationAndResetCluster(c, id, message, berr) ==
    /\ NumCalls < MaxCalls
    /\ id \in OpIDs
    /\ pend[c].fn = ""
    /\ LET key == OpKey(id)
           f == FailOperationAndResetCluster(key, message, berr, Nil)
           made == <<SetOperationStateCall(key, f.req, berr)>>
       IN /\ SetOperationState(key, f.req, berr)
          /\ IF f.reset
             THEN /\ pend' = [pend EXCEPT ![c] = InCall("FailOperationAndResetCluster",
                                                        <<id, message>>, made, <<>>)]
                  /\ calls' = <<>>
                  /\ res' = Result("", NoListing, <<>>, NoProgress, Nil)
             ELSE /\ calls' = made
                  /\ res' = KeyedResult("FailOperationAndResetCluster", key, message, f.err)
                  /\ UNCHANGED pend
    /\ clock' = clock + 1
    /\ UNCHANGED <<siteActive, order, accounts, nonOpsVars>>

\* c's FailOperationAndResetCluster calls ActivateSite and returns
ResetCluster(c, aerr) ==
    /\ pend[c].fn = "FailOperationAndResetCluster"
    /\ LET key == OpKey(pend[c].arg[1])
           message == pend[c].arg[2]
           f == FailOperationAndResetCluster(key, message, pend[c].calls[1].err, aerr)
       IN /\ ActivateSite(f.areq, aerr)
          /\ calls' = pend[c].calls \o <<ActivateSiteCall(f.areq, aerr)>>
          /\ res' = KeyedResult("FailOperationAndResetCluster", key, message, f.err)
    /\ pend' = [pend EXCEPT ![c] = NoCall]
    /\ UNCHANGED <<operations, progress, clock, order, accounts, nonOpsVars>>

\* a handler that only reads returns: nothing is written
Answer(result) ==
    /\ res' = result
    /\ calls' = result.reads
    /\ UNCHANGED <<operations, progress, siteActive, clock>>
    /\ UNCHANGED <<order, accounts, nonOpsVars>>

\* a query of one read
Query(result) == Answer(result) /\ UNCHANGED pend

\* c's handler has read the backend and has another call to make; (history)
\* res and calls are those of the most recent handler to return since a call
\* began
Reads(c, call) ==
    /\ pend' = [pend EXCEPT ![c] = call]
    /\ res' = Result("", NoListing, <<>>, NoProgress, Nil)
    /\ calls' = <<>>
    /\ UNCHANGED <<operations, progress, siteActive, clock>>
    /\ UNCHANGED <<order, accounts, nonOpsVars>>

\* the accessors that read the backend twice: what each returns, given what
\* the backend stored when the first read was served and what the reads return
TwoReads(fn, stored, id, e1, e2) ==
    CASE fn = "GetInstallOperation" -> GetInstallOperation(stored, e1, e2)
      [] fn = "GetLastUninstallOperation" -> GetLastUninstallOperation(stored, e1, e2)
      [] fn = "GetLastOperation" -> GetLastOperation(stored, e1, e2)
      [] fn = "GetLastFinishedOperation" -> GetLastFinishedOperation(stored, e1, e2)
      [] fn = "GetOperationWithProgress" -> GetOperationWithProgress(stored, id, e1, e2)
      [] fn = "GetExpandOperation" -> GetExpandOperation(e1, e2)

TwoReadAccessors ==
    {"GetInstallOperation", "GetLastUninstallOperation", "GetLastOperation",
     "GetLastFinishedOperation", "GetOperationWithProgress", "GetExpandOperation"}

\* c calls an accessor of two reads: the first read is made; the accessor
\* returns when that was its only read, and goes on to the second otherwise
StartQuery(c, fn, id, e1) ==
    /\ pend[c].fn = ""
    /\ LET r == TwoReads(fn, operations, id, e1, Nil)
       IN IF Len(r.reads) = 1
          THEN Query(r)
          ELSE Reads(c, InCall(fn, <<id>>, <<r.reads[1]>>,
                               IF fn = "GetExpandOperation" THEN <<>> ELSE operations))

\* c's accessor makes its second read and returns
FinishQuery(c, e2) ==
    /\ pend[c].fn \in TwoReadAccessors
    /\ Answer(TwoReads(pend[c].fn, pend[c].stored, pend[c].arg[1], pend[c].calls[1].err, e2))
    /\ pend' = [pend EXCEPT ![c] = NoCall]

\* c calls GetWizardOperation: GetSites is called; the handler returns unless
\* there is one cluster
CallGetWizardOperation(c, clusters, serr) ==
    /\ pend[c].fn = ""
    /\ LET w == GetWizardOperation(operations, clusters, serr, Nil, Nil)
       IN IF Len(w.calls) = 1
          THEN /\ res' = w.result
               /\ calls' = w.calls
               /\ UNCHANGED <<operations, progress, siteActive, clock>>
               /\ UNCHANGED <<order, accounts, pend, nonOpsVars>>
          ELSE Reads(c, InCall("GetWizardOperation", <<clusters>>, <<w.calls[1]>>, <<>>))

\* c's GetWizardOperation lists the install operations; the handler returns
\* unless there is one
WizardList(c, lerr) ==
    /\ pend[c].fn = "GetWizardOperation"
    /\ Len(pend[c].calls) = 1
    /\ LET w == GetWizardOperation(operations, pend[c].arg[1], Nil, lerr, Nil)
       IN IF Len(w.calls) = 2
          THEN /\ res' = w.result
               /\ calls' = w.calls
               /\ pend' = [pend EXCEPT ![c] = NoCall]
               /\ UNCHANGED <<operations, progress, siteActive, clock>>
               /\ UNCHANGED <<order, accounts, nonOpsVars>>
          ELSE Reads(c, InCall("GetWizardOperation", pend[c].arg, SubSeq(w.calls, 1, 2),
                               operations))

\* c's GetWizardOperation reads the progress of the operation and returns
WizardProgress(c, perr) ==
    /\ pend[c].fn = "GetWizardOperation"
    /\ Len(pend[c].calls) = 2
    /\ LET w == GetWizardOperation(pend[c].stored, pend[c].arg[1], Nil, Nil, perr)
       IN /\ res' = w.result
          /\ calls' = w.calls
    /\ pend' = [pend EXCEPT ![c] = NoCall]
    /\ UNCHANGED <<operations, progress, siteActive, clock>>
    /\ UNCHANGED <<order, accounts, nonOpsVars>>

\* another organisation's account is created
CreateOtherAccount(i) ==
    LET c == CreateAccount(OtherAccount(i), Nil)
    IN /\ c.err = Nil
       /\ accounts' = c.accounts
       /\ calls' = <<>>
       /\ res' = Result("", NoListing, <<>>, NoProgress, Nil)
       /\ UNCHANGED <<operations, progress, siteActive, clock>>
       /\ UNCHANGED <<order, pend, nonOpsVars>>

\* c calls UpsertSystemAccount: the accounts are read; the handler returns
\* the system account or the error of the read, or goes on to create the account
CallUpsertSystemAccount(c, gerr) ==
    /\ pend[c].fn = ""
    /\ LET u == UpsertSystemAccount(accounts, gerr, Nil)
       IN IF Len(u.calls) = 1
          THEN /\ calls' = u.calls
               /\ res' = u.result
               /\ UNCHANGED <<operations, progress, siteActive, clock>>
               /\ UNCHANGED <<order, accounts, pend, nonOpsVars>>
          ELSE Reads(c, InCall("UpsertSystemAccount", <<>>, <<u.calls[1]>>, accounts))

\* c's UpsertSystemAccount calls CreateAccount and returns
CreateSystemAccount(c, cerr) ==
    /\ pend[c].fn = "UpsertSystemAccount"
    /\ LET u == UpsertSystemAccount(pend[c].stored, Nil, cerr)
       IN /\ accounts' = u.accounts
          /\ calls' = u.calls
          /\ res' = u.result
    /\ pend' = [pend EXCEPT ![c] = NoCall]
    /\ UNCHANGED <<operations, progress, siteActive, clock>>
    /\ UNCHANGED <<order, nonOpsVars>>

Transitions(Cs, Msgs) ==
    \/ \E id \in 1 .. MaxOps, berr \in BackendOutcomes : CallCompleteOperation(id, berr)
    \/ \E id \in 1 .. MaxOps, m \in Msgs, berr \in BackendOutcomes : CallFailOperation(id, m, berr)
    \/ \E c \in Cs, id \in 1 .. MaxOps, m \in Msgs, berr \in BackendOutcomes :
           CallFailOperationAndResetCluster(c, id, m, berr)
    \/ \E c \in Cs, aerr \in BackendOutcomes : ResetCluster(c, aerr)

Queries ==
    \/ \E c \in Readers, lerr \in BackendOutcomes : StartQuery(c, "GetInstallOperation", 0, lerr)
    \/ \E c \in Readers, lerr \in BackendOutcomes : StartQuery(c, "GetLastUninstallOperation", 0, lerr)
    \/ \E lerr \in BackendOutcomes : Query(GetLastCompletedUpdateOperation(lerr))
    \/ \E lerr \in BackendOutcomes : Query(GetCompletedInstallOperation(lerr))
    \/ \E c \in Readers, lerr \in BackendOutcomes : StartQuery(c, "GetLastOperation", 0, lerr)
    \/ \E c \in Readers, lerr \in BackendOutcomes : StartQuery(c, "GetLastFinishedOperation", 0, lerr)
    \/ \E lerr \in BackendOutcomes : Query(GetLastUpgradeOperation(lerr))
    \/ \E lerr \in BackendOutcomes : Query(GetLastShrinkOperation(lerr))
    \/ \E lerr \in BackendOutcomes : Query(GetActiveOperations(lerr))
    \/ \E t \in OpTypes, lerr \in BackendOutcomes : Query(GetActiveOperationsByType(t, lerr))
    \/ \E c \in Readers, perr \in BackendOutcomes : FinishQuery(c, perr)

(***************************************************************************)
(* Context helpers.  A context is the chain of the values attached to it,  *)
(* most recent first; a key is a value of some type, and the package's     *)
(* keys are of its own type contextKey.                                    *)
(***************************************************************************)
\* number of values attached to a context
MaxCtxDepth == 3

ContextKey(n) == [type |-> "contextKey", key |-> n]
userContext == ContextKey(0)
\* the key of the web session, were it the key of the operator
webSessionContextColliding == ContextKey(2)
webSessionContext == ContextKey(1)
operatorContext == ContextKey(2)

\* keys other packages use: the same numbers as plain ints
ForeignKeys == {[type |-> "int", key |-> n] : n \in 0 .. 2}

\* values with their dynamic type; NilValue is the nil interface
StringValue(str) == [type |-> "string", v |-> str]
OperatorValue(o) == [type |-> "Operator", v |-> o]
SessionValue(w) == [type |-> "WebSession", v |-> w]
NilValue == [type |-> "nil", v |-> ""]

Users == {"alice", "bob"}
Operators == {"operator"}
Sessions == {"session"}
ForeignValues == {StringValue("mallory"), OperatorValue("other operator"),
                  SessionValue("other session")}

\* context.Background()
Background == <<>>

\* context.WithValue(ctx, key, val)
WithValue(c, k, val) == <<[key |-> k, val |-> val]>> \o c

\* ctx.Value(key): the value most recently attached under the key, or nil
Attached(c, k) == \E i \in 1 .. Len(c) : c[i].key = k
Value(c, k) ==
    IF Attached(c, k)
    THEN c[CHOOSE i \in 1 .. Len(c) : c[i].key = k /\ \A j \in 1 .. i - 1 : c[j].key # k].val
    ELSE NilValue

\* v, ok := x.(T)
TypeAssert(x, t) == [value |-> x, ok |-> x.type = t]

\* UserFromContext that looks the user up under the plain int 0
UserFromContextIntKey(c) ==
    LET a == TypeAssert(Value(c, [type |-> "int", key |-> 0]), "string")
    IN IF ~a.ok THEN StringValue("") ELSE a.value

UserFromContext(c) ==
    LET a == TypeAssert(Value(c, userContext), "string")
    IN IF ~a.ok THEN StringValue("") ELSE a.value

NewUserContext(c, user) == WithValue(c, userContext, StringValue(user))

OperatorFromContext(c) ==
    LET a == TypeAssert(Value(c, operatorContext), "Operator")
    IN IF ~a.ok THEN NilValue ELSE a.value

NewOperatorContext(c, operator) == WithValue(c, operatorContext, OperatorValue(operator))

SessionFromContext(c) ==
    LET a == TypeAssert(Value(c, webSessionContext), "WebSession")
    IN IF ~a.ok THEN NilValue ELSE a.value

NewSessionContext(c, session) == WithValue(c, webSessionContext, SessionValue(session))

NotRetrieved == [fn |-> "", value |-> NilValue]

CtxInit ==
    /\ ctx = Background
    /\ got = NotRetrieved

\* a value is attached: the handlers go on with the new context
Attach(c) ==
    /\ Len(ctx) < MaxCtxDepth
    /\ ctx' = c
    /\ got' = NotRetrieved
    /\ UNCHANGED <<execVars, opsVars, rpcVars, aclVars, helmVars>>

CallNewUserContext(user) == Attach(NewUserContext(ctx, user))
CallNewOperatorContext(operator) == Attach(NewOperatorContext(ctx, operator))
CallNewSessionContext(session) == Attach(NewSessionContext(ctx, session))

\* another package attaches a value of its own
CallWithValue(k, val) == Attach(WithValue(ctx, k, val))

Retrieve(fn, val) ==
    /\ got' = [fn |-> fn, value |-> val]
    /\ UNCHANGED <<ctx, execVars, opsVars, rpcVars, aclVars, helmVars>>

CallUserFromContext == Retrieve("UserFromContext", UserFromContext(ctx))
CallOperatorFromContext == Retrieve("OperatorFromContext", OperatorFromContext(ctx))
CallSessionFromContext == Retrieve("SessionFromContext", SessionFromContext(ctx))

(***************************************************************************)
(* The discovery client.                                                   *)
(***************************************************************************)
\* number of discovery calls made
MaxRpcCalls == 2

\* gRPC status codes of the errors the calls of the generated client return:
\* the agent's handler failed (an application error, sent as its code), or
\* the agent could not be reached
CodeNotFound == "NotFound"
CodePermissionDenied == "PermissionDenied"
CodeInvalidArgument == "InvalidArgument"
CodeUnavailable == "Unavailable"
ApplicationCodes == {CodeNotFound, CodePermissionDenied, CodeInvalidArgument}
TransportCodes == {CodeUnavailable}
Codes == ApplicationCodes \cup TransportCodes

\* the error of a failed RPC as the gRPC client returns it
StatusError(code) == NewError("rpc error: code = " \o code)

\* grpc.Code(err)
Code(err) ==
    IF \E c \in Codes : err = StatusError(c)
    THEN CHOOSE c \in Codes : err = StatusError(c)
    ELSE "Unknown"

\* trail.FromGRPC(err): the trace error of the status code
FromGRPC(err) ==
    IF err = Nil THEN Nil
    ELSE CASE Code(err) = CodeNotFound         -> NewError("NotFound")
           [] Code(err) = CodePermissionDenied -> NewError("AccessDenied")
           [] Code(err) = CodeInvalidArgument  -> NewError("BadParameter")
           [] Code(err) = CodeUnavailable      -> NewError("ConnectionProblem")
           [] OTHER                            -> NewError("error")

\* the responses of the agent: well-formed, or not decodable
ValidPayload == "valid"
InvalidPayload == "invalid"
Payloads == {ValidPayload, InvalidPayload}
RpcOutcomes == {StatusError(c) : c \in Codes} \cup {Nil}

NoValue == ""
Reply(call, resp, rerr, value, err) ==
    [err |-> err, call |-> call, value |-> value, resp |-> resp, wire |-> rerr]

\* storage.UnmarshalSystemInfo and types.TimestampFromProto
UnmarshalSystemInfo(payload) ==
    IF payload = ValidPayload THEN [err |-> Nil, value |-> "system"]
    ELSE [err |-> NewError("BadParameter"), value |-> NoValue]
TimestampFromProto(payload) ==
    IF payload = ValidPayload THEN [err |-> Nil, value |-> "time"]
    ELSE [err |-> NewError("InvalidTimestamp"), value |-> NoValue]

GetSystemInfo(resp, rerr) ==
    IF rerr # Nil THEN Reply("GetSystemInfo", resp, rerr, NoValue, Wrap(rerr))
    ELSE LET system == UnmarshalSystemInfo(resp)
         IN IF system.err # Nil
            THEN Reply("GetSystemInfo", resp, rerr, NoValue, Wrap(system.err))
            ELSE Reply("GetSystemInfo", resp, rerr, system.value, Nil)

GetRuntimeConfig(resp, rerr) ==
    IF rerr # Nil THEN Reply("GetRuntimeConfig", resp, rerr, NoValue, Wrap(rerr))
    ELSE Reply("GetRuntimeConfig", resp, rerr, resp, Nil)

GetCurrentTime(resp, rerr) ==
    IF rerr # Nil THEN Reply("GetCurrentTime", resp, rerr, NoValue, Wrap(rerr))
    ELSE LET ts == TimestampFromProto(resp)
         IN IF ts.err # Nil
            THEN Reply("GetCurrentTime", resp, rerr, NoValue, Wrap(ts.err))
            ELSE Reply("GetCurrentTime", resp, rerr, ts.value, Nil)

GetVersion(resp, rerr) ==
    IF rerr # Nil THEN Reply("GetVersion", resp, rerr, NoValue, FromGRPC(rerr))
    ELSE Reply("GetVersion", resp, rerr, resp, Nil)

RpcInit == rpcs = <<>>

\* a discovery call is made and returns
Discover(reply) ==
    /\ Len(rpcs) < MaxRpcCalls
    /\ rpcs' = Append(rpcs, reply)
    /\ UNCHANGED <<execVars, opsVars, ctxVars, aclVars, helmVars>>

\* the RPC fails, or succeeds with some response
RpcResults ==
    {<<ValidPayload, e>> : e \in RpcOutcomes} \cup {<<p, Nil>> : p \in Payloads}

CallGetSystemInfo == \E o \in RpcResults : Discover(GetSystemInfo(o[1], o[2]))
CallGetRuntimeConfig == \E o \in RpcResults : Discover(GetRuntimeConfig(o[1], o[2]))
CallGetCurrentTime == \E o \in RpcResults : Discover(GetCurrentTime(o[1], o[2]))
CallGetVersion == \E o \in RpcResults : Discover(GetVersion(o[1], o[2]))

(***************************************************************************)
(* The enterprise ACL operator.                                            *)
(***************************************************************************)
KindCluster == "cluster"
KindLicense == "license"
KindRole == "role"
KindOIDCConnector == "oidc"
KindSAMLConnector == "saml"

VerbCreate == "create"
VerbRead == "read"
VerbUpdate == "update"
VerbList == "list"
VerbDelete == "delete"
VerbRegister == "register"

\* a permission: an action on a kind of resource, of one cluster or ("") of any
Permission(cluster, kind, verb) == <<cluster, kind, verb>>

AccessDenied(kind, verb) == [NewError("AccessDenied") EXCEPT !.msgs = <<kind, verb>>]

\* the wrapped ACL operator's checks of the caller's permissions
Action(perms, kind, verb) ==
    IF Permission("", kind, verb) \in perms THEN Nil ELSE AccessDenied(kind, verb)

ClusterAction(perms, cluster, kind, verb) ==
    IF Permission(cluster, kind, verb) \in perms \/ Permission("", kind, verb) \in perms
    THEN Nil ELSE AccessDenied(kind, verb)

\* what a method did: the checks it made and the methods of the wrapped
\* operator it invoked, in order
CheckEvent(cluster, kind, verb, err) ==
    [kind |-> kind, err |-> err, cluster |-> cluster, verb |-> verb, ev |-> "check", method |-> ""]

InvokeEvent(method, err) ==
    [kind |-> "", err |-> err, cluster |-> "", verb |-> "", ev |-> "invoke", method |-> method]

\* the checks of a list of actions on one kind: they stop at the first denial
RECURSIVE ActionsLog(_, _, _)
ActionsLog(perms, kind, actions) ==
    IF Len(actions) = 0 THEN <<>>
    ELSE LET err == Action(perms, kind, Head(actions))
         IN <<CheckEvent("", kind, Head(actions), err)>>
              \o (IF err # Nil THEN <<>> ELSE ActionsLog(perms, kind, Tail(actions)))

\* the error of a log of checks: that of its last check
Denial(log) == IF Len(log) = 0 THEN Nil ELSE Wrap(log[Len(log)].err)

\* roleActions that checks the first of the actions only
roleActionsFirst(perms, actions) ==
    LET log == ActionsLog(perms, KindRole, SubSeq(actions, 1, 1))
    IN [err |-> Denial(log), log |-> log]

\* roleActions: access to the actions on the "role" resource
roleActions(perms, actions) ==
    LET log == ActionsLog(perms, KindRole, actions) IN [err |-> Denial(log), log |-> log]

\* the wrapped ACL operator's check of the actions on a kind of connector
AuthConnectorActions(perms, kind, actions) ==
    LET log == ActionsLog(perms, kind, actions) IN [err |-> Denial(log), log |-> log]

NoRole == [name |-> "", system |-> FALSE]

\* a role: its name and whether its metadata carries the system label
Role(name, system) == [name |-> name, system |-> system]
RoleNames == {"developer"}
Roles == {Role(n, b) : n \in RoleNames, b \in BOOLEAN}

\* the role a call names, as the wrapped operator holds it
Addressed(stored, name) == IF stored[name] = NoRole THEN Role(name, FALSE) ELSE stored[name]

\* the wrapped operator: GetRole returns the role it holds, UpsertRole stores
\* the role in place of the one of that name, DeleteRole removes it
OperatorGetRole(stored, name, berr) ==
    IF berr # Nil THEN berr
    ELSE IF stored[name] = NoRole THEN NewError("NotFound") ELSE Nil

OperatorUpsertRole(stored, role, berr) ==
    IF berr # Nil THEN stored ELSE [stored EXCEPT ![role.name] = role]

OperatorDeleteRole(stored, name, berr) ==
    IF berr # Nil \/ stored[name] = NoRole THEN stored ELSE [stored EXCEPT ![name] = NoRole]

OperatorDeleteRoleError(stored, name, berr) ==
    IF berr # Nil THEN berr
    ELSE IF stored[name] = NoRole THEN NewError("NotFound") ELSE Nil

\* what a method of OperatorACL returned, with what it was called with
Outcome(method, perms, role, log, err) ==
    [err |-> err, perms |-> perms, method |-> method, log |-> log, role |-> role]

\* "if err := o.ClusterAction(...); err != nil { return trace.Wrap(err) };
\*  return o.operator.Method(...)"
ClusterGuarded(method, perms, cluster, verb, oerr) ==
    LET err == ClusterAction(perms, cluster, KindCluster, verb)
        chk == CheckEvent(cluster, KindCluster, verb, err)
    IN IF err # Nil THEN Outcome(method, perms, NoRole, <<chk>>, Wrap(err))
       ELSE Outcome(method, perms, NoRole, <<chk, InvokeEvent(method, oerr)>>, oerr)

\* "if err := o.Action(...); err != nil { return trace.Wrap(err) };
\*  return o.operator.Method(...)"
ActionGuarded(method, perms, kind, verb, oerr) ==
    LET err == Action(perms, kind, verb)
        chk == CheckEvent("", kind, verb, err)
    IN IF err # Nil THEN Outcome(method, perms, NoRole, <<chk>>, Wrap(err))
       ELSE Outcome(method, perms, NoRole, <<chk, InvokeEvent(method, oerr)>>, oerr)

\* the checks of a method that falls back from the cluster's permission to
\* the permissions on the resource
Fallback(perms, cluster, verb, kind, actions) ==
    LET err == ClusterAction(perms, cluster, KindCluster, verb)
        chk == CheckEvent(cluster, KindCluster, verb, err)
        more == IF kind = KindRole THEN roleActions(perms, actions)
                ELSE AuthConnectorActions(perms, kind, actions)
    IN IF err = Nil THEN [err |-> Nil, log |-> <<chk>>]
       ELSE [err |-> more.err, log |-> <<chk>> \o more.log]

\* the methods that check one action on the cluster named in the request
ClusterMethods ==
    [RegisterAgent |-> VerbUpdate, GetClusterEndpoints |-> VerbRead,
     UpdateClusterEndpoints |-> VerbUpdate, CheckForUpdate |-> VerbRead,
     DownloadUpdate |-> VerbUpdate, EnablePeriodicUpdates |-> VerbUpdate,
     DisablePeriodicUpdates |-> VerbUpdate, StartPeriodicUpdates |-> VerbUpdate,
     StopPeriodicUpdates |-> VerbUpdate, PeriodicUpdatesStatus |-> VerbRead,
     UpsertTrustedCluster |-> VerbUpdate, DeleteTrustedCluster |-> VerbUpdate,
     GetTrustedClusters |-> VerbRead, GetTrustedCluster |-> VerbRead,
     CheckSiteLicense |-> VerbUpdate, UpdateLicense |-> VerbUpdate]

\* the methods that check one action on a kind of resource
ActionMethods ==
    [RequestClusterCopy |-> <<KindCluster, VerbCreate>>,
     AcceptRemoteCluster |-> <<KindCluster, VerbRegister>>,
     RemoveRemoteCluster |-> <<KindCluster, VerbRegister>>,
     NewLicense |-> <<KindLicense, VerbCreate>>]

\* the connector methods: the action on the cluster, else the actions on the
\* kind of connector
ConnectorMethods ==
    [UpsertOIDCConnector |-> <<VerbUpdate, KindOIDCConnector, <<VerbCreate, VerbUpdate>> >>,
     GetOIDCConnector |-> <<VerbRead, KindOIDCConnector, <<VerbRead>> >>,
     GetOIDCConnectors |-> <<VerbRead, KindOIDCConnector, <<VerbList, VerbRead>> >>,
     DeleteOIDCConnector |-> <<VerbUpdate, KindOIDCConnector, <<VerbDelete>> >>,
     UpsertSAMLConnector |-> <<VerbUpdate, KindSAMLConnector, <<VerbCreate, VerbUpdate>> >>,
     GetSAMLConnector |-> <<VerbRead, KindSAMLConnector, <<VerbRead>> >>,
     GetSAMLConnectors |-> <<VerbRead, KindSAMLConnector, <<VerbList, VerbRead>> >>,
     DeleteSAMLConnector |-> <<VerbUpdate, KindSAMLConnector, <<VerbDelete>> >>]

ConnectorGuarded(method, perms, cluster, oerr) ==
    LET m == ConnectorMethods[method]
        a == Fallback(perms, cluster, m[1], m[2], m[3])
    IN IF a.err # Nil THEN Outcome(method, perms, NoRole, a.log, Wrap(a.err))
       ELSE Outcome(method, perms, NoRole, a.log \o <<InvokeEvent(method, oerr)>>, oerr)

\* GetLicenseCA returns the CA certificate the Ops Center signs licenses with
GetLicenseCA(perms, oerr) ==
    Outcome("GetLicenseCA", perms, NoRole, <<InvokeEvent("GetLicenseCA", oerr)>>, oerr)

SystemRoleDenied(what) == [NewError("AccessDenied") EXCEPT !.msgs = <<what>>]

UpsertRole(perms, cluster, role, oerr) ==
    LET a == Fallback(perms, cluster, VerbUpdate, KindRole, <<VerbCreate, VerbUpdate>>)
    IN IF a.err # Nil THEN Outcome("UpsertRole", perms, role, a.log, Wrap(a.err))
       ELSE IF role.system
       THEN Outcome("UpsertRole", perms, role, a.log,
                    SystemRoleDenied("system roles can't be created"))
       ELSE Outcome("UpsertRole", perms, role, a.log \o <<InvokeEvent("UpsertRole", oerr)>>, oerr)

GetRole(perms, cluster, role, oerr) ==
    LET a == Fallback(perms, cluster, VerbRead, KindRole, <<VerbRead>>)
    IN IF a.err # Nil THEN Outcome("GetRole", perms, role, a.log, Wrap(a.err))
       ELSE Outcome("GetRole", perms, role, a.log \o <<InvokeEvent("GetRole", oerr)>>, oerr)

GetRoles(perms, cluster, oerr) ==
    LET a == Fallback(perms, cluster, VerbRead, KindRole, <<VerbList, VerbRead>>)
    IN IF a.err # Nil THEN Outcome("GetRoles", perms, NoRole, a.log, Wrap(a.err))
       ELSE Outcome("GetRoles", perms, NoRole, a.log \o <<InvokeEvent("GetRoles", oerr)>>, oerr)

\* DeleteRole: the wrapped operator's GetRole returns the role or gerr, and its
\* DeleteRole, called when the role read is no system role, returns oerr
DeleteRole(perms, cluster, role, gerr, oerr) ==
    LET a == Fallback(perms, cluster, VerbUpdate, KindRole, <<VerbDelete>>)
        got1 == a.log \o <<InvokeEvent("GetRole", gerr)>>
    IN IF a.err # Nil THEN Outcome("DeleteRole", perms, role, a.log, Wrap(a.err))
       ELSE IF gerr # Nil THEN Outcome("DeleteRole", perms, role, got1, Wrap(gerr))
       ELSE IF role.system
       THEN Outcome("DeleteRole", perms, role, got1,
                    SystemRoleDenied("system roles can't be deleted"))
       ELSE Outcome("DeleteRole", perms, role, got1 \o <<InvokeEvent("DeleteRole", oerr)>>, oerr)

\* the caller's permissions tried: any of those the methods ask for
Permissions ==
    {Permission(SiteDomain, KindCluster, v) : v \in {VerbRead, VerbUpdate}}
        \cup {Permission("", KindCluster, v) : v \in {VerbCreate, VerbRegister}}
        \cup {Permission("", KindLicense, VerbCreate)}
        \cup {Permission("", k, v) : k \in {KindRole, KindOIDCConnector, KindSAMLConnector},
                                      v \in {VerbCreate, VerbRead, VerbUpdate, VerbList, VerbDelete}}

\* the permissions a call of some kind and verbs can ask for
Asked(kinds, verbs) ==
    {p \in Permissions : p[2] \in kinds \cup {KindCluster} /\ p[3] \in verbs}

\* a DeleteRole call between the lookup of the role and its deletion: the
\* caller's permissions and the role as GetRole returned it
Deleting(perms, role) == [perms |-> perms, role |-> role]
NoDeleting == Deleting({}, NoRole)

\* the call invoked the method of the wrapped operator it guards
Delegated(outcome) ==
    /\ Len(outcome.log) > 0
    /\ outcome.log[Len(outcome.log)].ev = "invoke"
    /\ outcome.log[Len(outcome.log)].method = outcome.method

AclInit ==
    /\ acl = Outcome("", {}, NoRole, <<>>, Nil)
    /\ roles = [n \in RoleNames |-> Role(n, FALSE)]
    /\ deleting = NoDeleting

\* a call through OperatorACL returns
Return(outcome) ==
    /\ acl' = outcome
    /\ UNCHANGED <<roles, deleting>>
    /\ UNCHANGED <<execVars, opsVars, ctxVars, rpcVars, helmVars>>

\* another user of the wrapped operator stores a role
StoreRole(role) ==
    /\ roles[role.name] # role
    /\ roles' = OperatorUpsertRole(roles, role, Nil)
    /\ UNCHANGED <<acl, deleting>>
    /\ UNCHANGED <<execVars, opsVars, ctxVars, rpcVars, helmVars>>

CallClusterMethod ==
    \E method \in DOMAIN ClusterMethods, oerr \in BackendOutcomes,
       perms \in SUBSET Asked({}, {VerbRead, VerbUpdate}) :
        Return(ClusterGuarded(method, perms, SiteDomain, ClusterMethods[method], oerr))

CallActionMethod ==
    \E method \in DOMAIN ActionMethods, oerr \in BackendOutcomes,
       perms \in SUBSET Asked({KindLicense}, {VerbCreate, VerbRegister}) :
        Return(ActionGuarded(method, perms, ActionMethods[method][1],
                             ActionMethods[method][2], oerr))

CallConnectorMethod ==
    \E method \in DOMAIN ConnectorMethods, oerr \in BackendOutcomes :
        LET m == ConnectorMethods[method]
        IN \E perms \in SUBSET Asked({m[2]}, {m[1]} \cup {m[3][i] : i \in 1 .. Len(m[3])}) :
               Return(ConnectorGuarded(method, perms, SiteDomain, oerr))

CallGetLicenseCA ==
    \E oerr \in BackendOutcomes, perms \in SUBSET Asked({KindLicense}, {VerbRead, VerbCreate}) :
        Return(GetLicenseCA(perms, oerr))

\* UpsertRole is called: the role is stored when the call is delegated
CallUpsertRole ==
    \E role \in Roles, oerr \in BackendOutcomes,
       perms \in SUBSET Asked({KindRole}, {VerbCreate, VerbUpdate}) :
        LET u == UpsertRole(perms, SiteDomain, role, oerr)
        IN /\ acl' = u
           /\ roles' = IF Delegated(u) THEN OperatorUpsertRole(roles, role, oerr) ELSE roles
           /\ UNCHANGED deleting
           /\ UNCHANGED <<execVars, opsVars, ctxVars, rpcVars, helmVars>>

CallGetRole ==
    \E name \in RoleNames, berr \in BackendOutcomes,
       perms \in SUBSET Asked({KindRole}, {VerbRead}) :
        Return(GetRole(perms, SiteDomain, Addressed(roles, name),
                       OperatorGetRole(roles, name, berr)))

CallGetRoles ==
    \E oerr \in BackendOutcomes, perms \in SUBSET Asked({KindRole}, {VerbList, VerbRead}) :
        Return(GetRoles(perms, SiteDomain, oerr))

\* DeleteRole is called: the caller's permissions are checked and the role is
\* looked up with the wrapped operator's GetRole; the call returns when it is
\* refused, and has the wrapped operator's DeleteRole to call otherwise
CallDeleteRole ==
    \E name \in RoleNames, berr \in BackendOutcomes,
       perms \in SUBSET Asked({KindRole}, {VerbUpdate, VerbDelete}) :
        /\ deleting = NoDeleting
        /\ LET role == Addressed(roles, name)
               d == DeleteRole(perms, SiteDomain, role, OperatorGetRole(roles, name, berr), Nil)
           IN IF Delegated(d)
              THEN /\ deleting' = Deleting(perms, role)
                   /\ UNCHANGED <<acl, roles>>
                   /\ UNCHANGED <<execVars, opsVars, ctxVars, rpcVars, helmVars>>
              ELSE Return(d)

\* the DeleteRole call that has looked its role up calls the wrapped
\* operator's DeleteRole for the name and returns what it returns
InvokeDeleteRole ==
    \E berr \in BackendOutcomes :
        /\ deleting # NoDeleting
        /\ acl' = DeleteRole(deleting.perms, SiteDomain, deleting.role, Nil,
                             OperatorDeleteRoleError(roles, deleting.role.name, berr))
        /\ roles' = OperatorDeleteRole(roles, deleting.role.name, berr)
        /\ deleting' = NoDeleting
        /\ UNCHANGED <<execVars, opsVars, ctxVars, rpcVars, helmVars>>

(***************************************************************************)
(* Helm chart filenames.                                                   *)
(***************************************************************************)
\* length of the chart names and versions tried
MaxChartLen == 2

\* the characters of chart names and versions
ChartChars == {"a", "1", ".", "-"}

RECURSIVE ChartTexts(_)
ChartTexts(n) ==
    IF n = 0 THEN {<<>>}
    ELSE LET shorter == ChartTexts(n - 1)
         IN shorter \cup {Append(t, c) : t \in shorter, c \in ChartChars}

Dash == <<"-">>
Tgz == <<".", "t", "g", "z">>

\* strings.TrimSuffix
TrimSuffix(s, suffix) ==
    IF Len(s) >= Len(suffix) /\ SubSeq(s, Len(s) - Len(suffix) + 1, Len(s)) = suffix
    THEN SubSeq(s, 1, Len(s) - Len(suffix))
    ELSE s

\* strings.Split on a separator of one character: piece is the part read so far
RECURSIVE SplitFrom(_, _, _)
SplitFrom(s, sep, piece) ==
    IF Len(s) = 0 THEN <<piece>>
    ELSE IF <<Head(s)>> = sep THEN <<piece>> \o SplitFrom(Tail(s), sep, <<>>)
    ELSE SplitFrom(Tail(s), sep, Append(piece, Head(s)))

Split(s, sep) == SplitFrom(s, sep, <<>>)

\* strings.Join
RECURSIVE Join(_, _)
Join(elems, sep) ==
    IF Len(elems) = 0 THEN <<>>
    ELSE IF Len(elems) = 1 THEN elems[1]
    ELSE elems[1] \o sep \o Join(Tail(elems), sep)

\* ToChartFilename: "%v-%v.tgz"
ToChartFilename(name, version) == name \o Dash \o version \o Tgz

\* ParseChartFilename: the name and the version of a chart package filename
ParseChartFilename(filename) ==
    LET parts == Split(TrimSuffix(filename, Tgz), Dash)
    IN IF Len(parts) < 2
       THEN [err |-> [BadParameter EXCEPT !.msgs = <<"bad chart filename: %v">>], name |-> <<>>,
             version |-> <<>>]
       ELSE [err |-> Nil,
             name |-> Join(SubSeq(parts, 1, Len(parts) - 1), Dash), version |-> parts[Len(parts)]]

NotParsed == [err |-> Nil, name |-> <<>>, version |-> <<>>]

\* a chart with its filename and what was parsed back from it
Chart(name, version, filename, parsed, stage) ==
    [name |-> name, version |-> version, filename |-> filename, parsed |-> parsed,
     stage |-> stage]

HelmInit == chart = Chart(<<>>, <<>>, <<>>, NotParsed, "none")

\* some chart is to be packaged
HelmStart ==
    \E name \in ChartTexts(MaxChartLen), version \in ChartTexts(MaxChartLen) :
        chart = Chart(name, version, <<>>, NotParsed, "chart")

CallToChartFilename ==
    /\ chart.stage = "chart"
    /\ chart' = [chart EXCEPT !.filename = ToChartFilename(chart.name, chart.version),
                              !.stage = "named"]
    /\ UNCHANGED <<execVars, opsVars, ctxVars, rpcVars, aclVars>>

CallParseChartFilename ==
    /\ chart.stage = "named"
    /\ chart' = [chart EXCEPT !.parsed = ParseChartFilename(chart.filename),
                              !.stage = "parsed"]
    /\ UNCHANGED <<execVars, opsVars, ctxVars, rpcVars, aclVars>>

\* the accessors of the last operation of some kind
LastQueries ==
    \/ \E c \in Readers, lerr \in BackendOutcomes : StartQuery(c, "GetLastUninstallOperation", 0, lerr)
    \/ \E lerr \in BackendOutcomes : Query(GetLastCompletedUpdateOperation(lerr))
    \/ \E lerr \in BackendOutcomes : Query(GetCompletedInstallOperation(lerr))
    \/ \E c \in Readers, lerr \in BackendOutcomes : StartQuery(c, "GetLastOperation", 0, lerr)
    \/ \E c \in Readers, lerr \in BackendOutcomes : StartQuery(c, "GetLastFinishedOperation", 0, lerr)
    \/ \E lerr \in BackendOutcomes : Query(GetLastUpgradeOperation(lerr))
    \/ \E lerr \in BackendOutcomes : Query(GetLastShrinkOperation(lerr))
    \/ \E c \in Readers, perr \in BackendOutcomes : FinishQuery(c, perr)

\* ---- specifications ----
Init == ExecInit /\ OpsInit /\ CtxInit /\ RpcInit /\ AclInit /\ HelmInit

\* the command executor
NextExec == ExecNext(1 .. NumRequests, ArgVectors)
SpecExec == Init /\ [][NextExec]_vars

\* the command executor with requests raced against each other
ConcurrentCommands == {CmdTrue, CmdFalse, CmdEcho}
NextConc == ExecNext(1 .. NumConcurrent, ConcurrentCommands)
SpecConc == Init /\ [][NextConc]_vars

\* the operations: transitions
NextOps ==
    \/ \E t \in {OperationInstall, OperationUpdate} : CreateOperation(t)
    \/ Transitions(Callers, OpsMessages)
SpecOps == Init /\ [][NextOps]_vars

\* the operations: accessors, after some transitions
NextQuery ==
    \/ \E t \in OpTypes : CreateOperation(t)
    \/ NumCalls < MaxQueryCalls /\ \E id \in 1 .. MaxOps : CallCompleteOperation(id, Nil)
    \/ NumCalls < MaxQueryCalls /\ \E id \in 1 .. MaxOps : CallFailOperation(id, <<>>, Nil)
    \/ Queries
SpecQuery == Init /\ [][NextQuery]_vars

\* the transitions with every failure message
NextFail ==
    \/ CreateOperation(OperationInstall)
    \/ NumCalls < MaxFailCalls /\ Transitions({1}, AllMessages)
SpecFail == Init /\ [][NextFail]_vars

\* the accessors of the last operation, over a backend of either order
InitOrder ==
    ExecInit /\ OpsStart /\ order \in Orders /\ CtxInit /\ RpcInit /\ AclInit /\ HelmInit
NextOrder ==
    \/ \E t \in OpTypes : CreateOperation(t)
    \/ NumCalls < MaxQueryCalls /\ \E id \in 1 .. MaxOps : CallCompleteOperation(id, Nil)
    \/ LastQueries
SpecOrder == InitOrder /\ [][NextOrder]_vars

\* the install wizard's operation
NextWizard ==
    \/ \E t \in OpTypes : CreateOperation(t)
    \/ NumCalls < MaxQueryCalls /\ \E id \in 1 .. MaxOps : CallCompleteOperation(id, Nil)
    \/ \E c \in Readers, clusters \in SiteLists, serr \in BackendOutcomes :
           CallGetWizardOperation(c, clusters, serr)
    \/ \E c \in Readers, lerr \in BackendOutcomes : WizardList(c, lerr)
    \/ \E c \in Readers, perr \in BackendOutcomes : WizardProgress(c, perr)
SpecWizard == Init /\ [][NextWizard]_vars

\* every accessor
NextReadOnly ==
    \/ \E t \in {OperationInstall, OperationUpdate, OperationExpand} : CreateOperation(t)
    \/ NumCalls < MaxQueryCalls /\ \E id \in 1 .. MaxOps : CallCompleteOperation(id, Nil)
    \/ Queries
    \/ \E c \in Readers, clusters \in SiteLists, serr \in BackendOutcomes :
           CallGetWizardOperation(c, clusters, serr)
    \/ \E c \in Readers, lerr \in BackendOutcomes : WizardList(c, lerr)
    \/ \E c \in Readers, perr \in BackendOutcomes : WizardProgress(c, perr)
    \/ \E clusters \in SiteLists, serr \in BackendOutcomes :
           Query(GetWizardCluster(clusters, serr))
    \/ \E c \in Readers, id \in 1 .. MaxOps, gerr \in BackendOutcomes :
           StartQuery(c, "GetOperationWithProgress", id, gerr)
    \/ \E c \in Readers, cerr \in BackendOutcomes : StartQuery(c, "GetExpandOperation", 0, cerr)
SpecReadOnly == Init /\ [][NextReadOnly]_vars

\* the system account
NextAccounts ==
    \/ \E i \in 1 .. MaxOtherAccounts : CreateOtherAccount(i)
    \/ \E c \in Callers, gerr \in BackendOutcomes : CallUpsertSystemAccount(c, gerr)
    \/ \E c \in Callers, cerr \in BackendOutcomes : CreateSystemAccount(c, cerr)
SpecAccounts == Init /\ [][NextAccounts]_vars

\* the enterprise ACL operator
NextACL ==
    \/ CallClusterMethod
    \/ CallActionMethod
    \/ CallConnectorMethod
    \/ CallGetLicenseCA
    \/ CallUpsertRole
    \/ CallGetRole
    \/ CallGetRoles
    \/ CallDeleteRole
    \/ InvokeDeleteRole
    \/ \E role \in Roles : StoreRole(role)
SpecACL == Init /\ [][NextACL]_vars

\* chart filenames
InitHelm == ExecInit /\ OpsInit /\ CtxInit /\ RpcInit /\ AclInit /\ HelmStart
NextHelm ==
    \/ CallToChartFilename
    \/ CallParseChartFilename
SpecHelm == InitHelm /\ [][NextHelm]_vars

\* the context helpers
NextContext ==
    \/ \E user \in Users : CallNewUserContext(user)
    \/ \E operator \in Operators : CallNewOperatorContext(operator)
    \/ \E session \in Sessions : CallNewSessionContext(session)
    \/ \E k \in ForeignKeys, val \in ForeignValues : CallWithValue(k, val)
    \/ CallUserFromContext
    \/ CallOperatorFromContext
    \/ CallSessionFromContext
SpecContext == Init /\ [][NextContext]_vars

\* the discovery client
NextDiscovery ==
    \/ CallGetSystemInfo
    \/ CallGetRuntimeConfig
    \/ CallGetCurrentTime
    \/ CallGetVersion
SpecDiscovery == Init /\ [][NextDiscovery]_vars

(***************************************************************************)
(* Properties.                                                             *)
(***************************************************************************)
\* the messages sent for request r, in order
EventsOf(r) == LET Test(m) == m.req = r IN SelectSeq(stream, Test)

\* request r has been given its sequence number
Allocated(r) == pc[r] \notin {"idle", "alloc"}

\* C1: the sequence numbers of the requests executed through osExec on one
\* connection are pairwise distinct and strictly increasing in allocation
\* order: a request that is given its number gets one greater than every
\* number given before.
C1_SeqUniqueIncreasing ==
    [][\A r \in Requests :
          (pc[r] = "alloc" /\ pc'[r] = "start") =>
              \A q \in Requests \ {r} : Allocated(q) => seq'[r] > seq[q]]_vars

\* (of a step) the callers whose handler has made a backend call and has
\* another to make, and those whose handler has made its last and returned
Went == {c \in Callers : pend[c].fn = "" /\ pend'[c].fn # ""}
Ended == {c \in Callers : pend[c].fn # "" /\ pend'[c].fn = ""}

\* (of a step that serves a SetOperationState call, at which the clock ticks)
\* the call served, and the key its handler was given
StateCall == IF Went # {} THEN pend'[CHOOSE c \in Went : TRUE].calls[1] ELSE calls'[1]
HandlerKey == IF Went # {} THEN OpKey(pend'[CHOOSE c \in Went : TRUE].arg[1]) ELSE res'.key

\* C2 as stated: once an operation is Completed or Failed, no transition
\* call changes its state.
C2_TerminalStateKept ==
    [][\A id \in OpIDs :
          OpState(id) \in TerminalStates => OpState(id)' = OpState(id)]_vars

\* C2 as amended: once an operation is Completed or Failed, every transition
\* call leaves it Completed or Failed (it never returns to a non-terminal
\* state), and a successful call leaves it in the state it requests.
C2_TerminalSetAbsorbing ==
    [][\A id \in OpIDs :
          OpState(id) \in TerminalStates =>
              /\ OpState(id)' \in TerminalStates
              /\ (clock' = clock + 1 /\ StateCall.err = Nil /\ StateCall.key.OperationID = id)
                     => /\ OpState(id)' = StateCall.state
                        /\ StateCall.state = (IF Went = {} /\ res'.fn = "CompleteOperation"
                                              THEN OperationStateCompleted
                                              ELSE OperationStateFailed)]_vars

\* an operation that was already terminal has been through another
\* successful transition call, which changed its state
C2_Witness ==
    \E id \in OpIDs :
        /\ Len(progress[id]) >= 2
        /\ progress[id][1].State # progress[id][2].State

\* C3: a filter-based accessor to which the backend returned an empty list
\* without error returns a NotFound error and no operation or progress.
C3_EmptyListingNotFound ==
    (res.fn \in FilterAccessors /\ res.listErr = Nil /\ res.listed = <<>>) =>
        /\ res.err.kind = "NotFound"
        /\ res.ops = <<>>
        /\ res.progress = NoProgress

\* the listing of shrink operations came back empty for a cluster that has operations
C3_Witness ==
    /\ res.fn = "GetLastShrinkOperation"
    /\ res.listErr = Nil /\ res.listed = <<>>
    /\ operations # <<>>
    /\ res.err.kind = "NotFound"

\* C4: when the executable cannot be launched, a completed event with the
\* request's sequence number, exit code -1 and a "failed to start" error
\* has been sent before exec returns.
C4_StartFailureCompleted ==
    \A r \in Requests :
        (pc[r] = "done" /\ proc[r].state = "none") =>
            \E i \in 1 .. Len(stream) :
                /\ stream[i].req = r
                /\ stream[i].type = "ExecCompleted"
                /\ stream[i].seq = seq[r]
                /\ stream[i].exitCode = -1
                /\ stream[i].error.set

\* C5: a CompleteOperation call issues exactly one SetOperationState request,
\* with state Completed and one progress entry (final step, 100%, state
\* Completed, "Operation has completed", the key's site domain and operation
\* id); when it succeeds that entry is appended to what the operation already
\* has, so a second call appends a second one.
C5_CompleteOneEntry ==
    [][(clock' = clock + 1 /\ Went = {} /\ res'.fn = "CompleteOperation") =>
          /\ Len(calls') = 1
          /\ LET c == calls'[1]
                 id == c.key.OperationID
             IN /\ c.call = "SetOperationState"
                /\ c.state = "completed"
                /\ c.key = [AccountID |-> AccountID, SiteDomain |-> SiteDomain, OperationID |-> id]
                /\ c.progress.SiteDomain = SiteDomain
                /\ c.progress.OperationID = id
                /\ c.progress.Step = FinalStep
                /\ c.progress.Completion = 100
                /\ c.progress.State = "completed"
                /\ c.progress.Message = <<"O", "p", "e", "r", "a", "t", "i", "o", "n", " ", "h", "a", "s", " ", "c", "o", "m", "p", "l", "e", "t", "e", "d">>
                /\ c.err = Nil =>
                       /\ progress'[id] = Append(progress[id], c.progress)
                       /\ \E i \in 1 .. Len(operations') :
                              operations'[i].id = id /\ operations'[i].state = "completed"
                       /\ \A o \in DOMAIN progress : o # id => progress'[o] = progress[o]
                /\ c.err # Nil => progress' = progress /\ operations' = operations]_vars

\* CompleteOperation has succeeded twice on one operation, which has two entries
C5_Witness ==
    \E id \in OpIDs :
        /\ Len(progress[id]) = 2
        /\ \A i \in 1 .. 2 : progress[id][i].Message = OperationHasCompleted
        /\ res.fn = "CompleteOperation"

\* a text without surrounding whitespace
NoSurroundingSpace(m) == m = <<>> \/ (~IsSpace(m[1]) /\ ~IsSpace(m[Len(m)]))

\* C6: FailOperation requests state Failed with one progress entry (final
\* step, state Failed) whose message is "Operation failure" for the empty
\* message and "Operation failure: " followed by the message for a non-empty
\* message without surrounding whitespace ("disk full" gives
\* "Operation failure: disk full").
C6_FailMessage ==
    (res.fn = "FailOperation" /\ NoSurroundingSpace(res.arg)) =>
        /\ Len(calls) = 1
        /\ calls[1].call = "SetOperationState"
        /\ calls[1].state = "failed"
        /\ calls[1].progress.Step = FinalStep
        /\ calls[1].progress.State = "failed"
        /\ calls[1].progress.Message =
               (IF res.arg = <<>> THEN <<"O", "p", "e", "r", "a", "t", "i", "o", "n", " ", "f", "a", "i", "l", "u", "r", "e">>
                ELSE <<"O", "p", "e", "r", "a", "t", "i", "o", "n", " ", "f", "a", "i", "l", "u", "r", "e", ":", " ">> \o res.arg)
        /\ res.arg = <<"d", "i", "s", "k", " ", "f", "u", "l", "l">> =>
               calls[1].progress.Message = <<"O", "p", "e", "r", "a", "t", "i", "o", "n", " ", "f", "a", "i", "l", "u", "r", "e", ":", " ", "d", "i", "s", "k", " ", "f", "u", "l", "l">>
        /\ calls[1].err = Nil =>
               LET id == calls[1].key.OperationID
               IN /\ OpState(id) = "failed"
                  /\ progress[id][Len(progress[id])] = calls[1].progress

\* FailOperation has succeeded with the message "disk full"
C6_Witness ==
    /\ res.fn = "FailOperation"
    /\ res.arg = DiskFull
    /\ res.err = Nil
    /\ calls[1].progress.Message = <<"O", "p", "e", "r", "a", "t", "i", "o", "n", " ", "f", "a", "i", "l", "u", "r", "e", ":", " ", "d", "i", "s", "k", " ", "f", "u", "l", "l">>

\* C7: for every message m, FailOperation's progress message is
\* "Operation failure" when m trimmed of surrounding whitespace is empty and
\* otherwise "Operation failure: " followed by m trimmed.
C7_FailMessageTrimmed ==
    res.fn = "FailOperation" =>
        calls[1].progress.Message =
            (IF TrimSpace(res.arg) = <<>> THEN OperationFailure
             ELSE OperationFailurePrefix \o TrimSpace(res.arg))

\* C8: when the SetOperationState call of FailOperationAndResetCluster
\* returns an error, ActivateSite is not invoked and the call returns that
\* error.
C8_FailErrorSkipsReset ==
    (res.fn = "FailOperationAndResetCluster" /\ calls[1].err # Nil) =>
        /\ \A i \in 1 .. Len(calls) : calls[i].call # "ActivateSite"
        /\ res.err # Nil
        /\ Cause(res.err) = calls[1].err

\* the Fail step of FailOperationAndResetCluster has returned an error
C8_Witness ==
    /\ res.fn = "FailOperationAndResetCluster"
    /\ calls[1].call = "SetOperationState"
    /\ calls[1].err \in BackendErrors
    /\ ~siteActive

\* request r ran a command that started, wrote nothing and exited with status 0
CleanExit(r) ==
    /\ pc[r] = "done"
    /\ proc[r].state = "exited"
    /\ proc[r].ws.exited /\ proc[r].ws.status = 0
    /\ written[r] = 0

\* C9: for a command that starts and exits cleanly without output the events
\* sent are exactly started(seq, args) then completed(seq, exit code 0, no
\* error), and exec returns nil.
C9_CleanExitEvents ==
    \A r \in Requests :
        CleanExit(r) =>
            /\ Len(EventsOf(r)) = 2
            /\ LET e == EventsOf(r)
               IN /\ e[1].type = "ExecStarted" /\ e[1].seq = seq[r] /\ e[1].args = args[r]
                  /\ e[2].type = "ExecCompleted" /\ e[2].seq = seq[r]
                  /\ e[2].exitCode = 0 /\ ~e[2].error.set
            /\ seq[r] # 0
            /\ ret[r] = Nil

\* the command "true" has run to its end
C9_Witness ==
    \E r \in Requests : CleanExit(r) /\ args[r] = CmdTrue /\ Len(EventsOf(r)) = 2

\* request r ran a command that started and whose Wait returned an error
AbnormalExit(r) ==
    /\ pc[r] = "done"
    /\ proc[r].state = "exited"
    /\ \/ ~(proc[r].ws.exited /\ proc[r].ws.status = 0)
       \/ \E fd \in FDs : copyErr[r][fd]

\* C10: for a command that starts and exits abnormally the completed event
\* carries the request's sequence number, an error, and the process's exit
\* status when it exited with a non-zero status, or -1 when the status cannot
\* be determined (the process was signalled, or the wait error is not an exit
\* error); exec returns an error.
C10_AbnormalExitCode ==
    \A r \in Requests :
        AbnormalExit(r) =>
            LET e == EventsOf(r)
                c == e[Len(e)]
            IN /\ c.type = "ExecCompleted"
               /\ c.seq = seq[r]
               /\ c.error.set
               /\ c.exitCode = (IF proc[r].ws.exited /\ proc[r].ws.status # 0
                                THEN proc[r].ws.status ELSE -1)
               /\ ret[r] # Nil

\* a command has exited with a non-zero status and its completed event was sent
C10_Witness ==
    \E r \in Requests :
        /\ AbnormalExit(r)
        /\ proc[r].ws.exited /\ proc[r].ws.status = 2
        /\ EventsOf(r)[Len(EventsOf(r))].exitCode = 2

\* C11: every request ends with exactly one completed event sent for it; all
\* the events of the request carry its sequence number; the completed event
\* is the last event of the request (it follows the started event and every
\* output event).
C11_OneCompletedLast ==
    \A r \in Requests :
        pc[r] = "done" =>
            LET e == EventsOf(r)
            IN /\ Len(e) > 0
               /\ e[Len(e)].type = "ExecCompleted"
               /\ \A i \in 1 .. Len(e) - 1 : e[i].type # "ExecCompleted"
               /\ \E i \in 1 .. Len(e) : e[i].type = "ExecStarted"
               /\ \A i \in 1 .. Len(e) : e[i].seq = seq[r]

\* what exec returns and reports for a command whose every Send succeeds and
\* whose context is not cancelled
OwnError(a) == IF Success(Program(a).ws) THEN Nil ELSE ExitError(Program(a).ws)

\* C12: a failed Send of a started, output or completed event does not change
\* the outcome of a command that is not cancelled: the process ends as the
\* program ends, and exec's return value and the completed event's exit code
\* and error are those of a run in which every Send succeeds.
C12_SendFailureNoEffect ==
    \A r \in Requests :
        (pc[r] = "done" /\ proc[r].state = "exited" /\ ~cancelled[r]) =>
            LET own == OwnError(args[r])
                e == EventsOf(r)
                c == e[Len(e)]
            IN /\ proc[r].ws = Program(args[r]).ws
               /\ ret[r] = Wrap(Wrap(own))
               /\ c.type = "ExecCompleted"
               /\ c.exitCode = (IF own = Nil THEN 0 ELSE exitCodeOf(own))
               /\ c.error = EncodeError(own)

\* the bytes of a sequence of chunks
RECURSIVE Flatten(_)
Flatten(chunks) == IF chunks = <<>> THEN <<>> ELSE Head(chunks) \o Flatten(Tail(chunks))

\* the bytes of the output events sent with sequence number s and descriptor fd
OutputOf(s, fd) ==
    LET Test(m) == m.type = "ExecOutput" /\ m.seq = s /\ m.fd = fd
        out == SelectSeq(stream, Test)
    IN Flatten([i \in 1 .. Len(out) |-> out[i].data])

\* the bytes the program of a writes to descriptor fd, in the order written
WritesTo(a, fd) ==
    LET Test(w) == w.fd = fd
        ws == SelectSeq(Program(a).writes, Test)
    IN Flatten([i \in 1 .. Len(ws) |-> ws[i].data])

IsPrefix(s, t) == Len(s) <= Len(t) /\ \A i \in 1 .. Len(s) : s[i] = t[i]

\* C13: with two commands running over one stream, the output events of each
\* (sequence number, descriptor) pair are the chunks one process wrote to that
\* descriptor, in the order it wrote them, and every output event carries the
\* sequence number and the descriptor of the writer that sent it.
C13_OutputOrderPerSeqFd ==
    /\ \A i \in 1 .. Len(stream) :
           stream[i].type = "ExecOutput" => stream[i].seq = seq[stream[i].req]
    /\ \A r \in Requests, fd \in FDs :
           Allocated(r) =>
               \E q \in Requests :
                   /\ Allocated(q) /\ seq[q] = seq[r]
                   /\ IsPrefix(OutputOf(seq[r], fd), WritesTo(args[q], fd))

\* C14: when the context of a request has been cancelled, at whatever point
\* after its arrival, the process is not running once exec has returned and a
\* completed event with the request's sequence number and an error has been
\* sent.
C14_CancelCompleted ==
    \A r \in Requests :
        (pc[r] = "done" /\ cancelled[r]) =>
            /\ proc[r].state # "running"
            /\ \E i \in 1 .. Len(stream) :
                   /\ stream[i].req = r
                   /\ stream[i].type = "ExecCompleted"
                   /\ stream[i].seq = seq[r]
                   /\ stream[i].error.set

LastAccessors ==
    {"GetLastUninstallOperation", "GetLastCompletedUpdateOperation",
     "GetCompletedInstallOperation", "GetLastOperation", "GetLastFinishedOperation",
     "GetLastUpgradeOperation", "GetLastShrinkOperation"}

\* C15: a 'last' accessor that succeeds returns exactly the first element of
\* the list the backend returned, in whatever order the backend lists; when
\* the list has several operations, the same list in the reverse order makes
\* the accessor return another operation.
C15_LastIsFirstListed ==
    (res.fn \in LastAccessors /\ res.err = Nil) =>
        /\ res.ops = <<res.listed[1]>>
        /\ Len(res.listed) > 1 =>
               First(res.fn, [err |-> Nil, ops |-> Reverse(res.listed)], "").ops # res.ops

\* the backend listed two update operations first-to-last and
\* GetLastUpgradeOperation returned the older one
C15_Witness ==
    /\ order = FirstToLast
    /\ res.fn = "GetLastUpgradeOperation"
    /\ res.err = Nil
    /\ Len(res.listed) = 2
    /\ res.ops[1].created < res.listed[2].created

\* C16: when GetSites returns exactly one cluster GetWizardOperation returns
\* that cluster's install operation (given that the reads of the backend
\* succeed), or NotFound when the cluster has no install operation; for any
\* other number of clusters it returns BadParameter and has not asked the
\* backend for operations.
C16_WizardOperation ==
    (res.fn = "GetWizardOperation" /\ calls[1].err = Nil) =>
        /\ calls[1].call = "GetSites"
        /\ Len(res.arg) # 1 =>
               /\ res.err.kind = "BadParameter"
               /\ res.ops = <<>>
               /\ Len(calls) = 1
        /\ Len(res.arg) = 1 =>
               /\ Len(calls) >= 2 /\ calls[2].call = "GetSiteOperations"
               /\ (calls[2].err = Nil
                     /\ \A i \in 1 .. Len(operations) : operations[i].type # OperationInstall) =>
                      res.err.kind = "NotFound" /\ res.ops = <<>>
               /\ (Len(calls) = 3 /\ \A i \in 1 .. 3 : calls[i].err = Nil) =>
                      /\ res.err = Nil
                      /\ Len(res.ops) = 1
                      /\ res.ops[1].type = OperationInstall
                      /\ res.ops[1] = res.listed[1]
                      /\ \E i \in 1 .. Len(operations) :
                             /\ operations[i].id = res.ops[1].id
                             /\ operations[i].type = res.ops[1].type
                             /\ operations[i].created = res.ops[1].created

\* GetSites returned two clusters, one of them with an install operation,
\* and GetWizardOperation returned BadParameter
C16_Witness ==
    /\ res.fn = "GetWizardOperation"
    /\ Len(res.arg) = 2
    /\ calls[1].err = Nil
    /\ res.err.kind = "BadParameter"
    /\ \E i \in 1 .. Len(operations) : operations[i].type = OperationInstall

\* C17: UserFromContext, OperatorFromContext and SessionFromContext applied
\* to a context to which the user, the operator or the session respectively
\* was never attached return the empty string, nil and nil, whatever else
\* the context carries.
C17_AbsentGivesEmpty ==
    /\ (got.fn = "UserFromContext" /\ ~Attached(ctx, userContext)) =>
           got.value = [type |-> "string", v |-> ""]
    /\ (got.fn = "OperatorFromContext" /\ ~Attached(ctx, operatorContext)) =>
           got.value = NilValue
    /\ (got.fn = "SessionFromContext" /\ ~Attached(ctx, webSessionContext)) =>
           got.value = NilValue

\* the user is asked of a context that carries an operator and, under the
\* int key 0 of another package, a string
C17_Witness ==
    /\ got.fn = "UserFromContext"
    /\ ~Attached(ctx, userContext)
    /\ Attached(ctx, operatorContext)
    /\ \E i \in 1 .. Len(ctx) :
           ctx[i].key = [type |-> "int", key |-> 0] /\ ctx[i].val.type = "string"
    /\ got.value.v = ""

\* the kind of the trace error that stands for a status code
TraceKind(code) ==
    CASE code = CodeNotFound         -> "NotFound"
      [] code = CodePermissionDenied -> "AccessDenied"
      [] code = CodeInvalidArgument  -> "BadParameter"
      [] code = CodeUnavailable      -> "ConnectionProblem"

\* C18: each of the four discovery calls whose RPC returned an error returns
\* the error translated from the wire form: an application error raised by
\* the agent comes back with its own kind, a transport failure as a
\* connection problem.
C18_ErrorsTranslated ==
    \A i \in 1 .. Len(rpcs) :
        rpcs[i].wire # Nil =>
            /\ rpcs[i].err.kind = TraceKind(Code(rpcs[i].wire))
            /\ Code(rpcs[i].wire) \in TransportCodes <=> rpcs[i].err.kind = "ConnectionProblem"

\* a CompleteOperation or FailOperation call has succeeded on the operation
Transitioned(id) == progress[id] # <<>>

\* the operations the backend holds that satisfy Test, most recent first
Held(Test(_)) == SelectSeq(operations, Test)

\* C19: GetActiveOperations and GetActiveOperationsByType (of some type)
\* return exactly the operations (of that type) on which no CompleteOperation
\* or FailOperation call has succeeded: an operation is dropped once such a
\* call succeeds, one without a transition call stays, and NotFound is
\* returned when none is left.
C19_ActiveExcludesEnded ==
    (res.fn \in {"GetActiveOperations", "GetActiveOperationsByType"} /\ res.listErr = Nil) =>
        LET Wanted(op) == /\ ~Transitioned(op.id)
                          /\ res.fn = "GetActiveOperationsByType" => op.type = res.arg[1]
        IN /\ res.ops = Held(Wanted)
           /\ Held(Wanted) = <<>> => res.err.kind = "NotFound"
           /\ Held(Wanted) # <<>> => res.err = Nil

\* the only operation of the cluster was ended and GetActiveOperations
\* returned NotFound
C19_Witness ==
    /\ res.fn = "GetActiveOperations"
    /\ Len(operations) = 1
    /\ Transitioned(operations[1].id)
    /\ res.listErr = Nil
    /\ res.err.kind = "NotFound"

\* how the operation was ended: the state of the progress entry of the last
\* transition call that succeeded on it, "" while there is none
EndedWith(op) ==
    IF progress[op.id] = <<>> THEN ""
    ELSE progress[op.id][Len(progress[op.id])].State

\* C20: GetLastCompletedUpdateOperation and GetCompletedInstallOperation
\* return the most recent operation of their type that was ended with
\* CompleteOperation and never one ended with FailOperation or still in
\* progress; GetLastFinishedOperation is given the most recent operation
\* ended with either call when it lists the operations and never one still in
\* progress.
C20_CompletedAndFinished ==
    /\ []((res.fn \in {"GetLastCompletedUpdateOperation", "GetCompletedInstallOperation"}
              /\ res.listErr = Nil) =>
              LET type == IF res.fn = "GetCompletedInstallOperation"
                          THEN "operation_install" ELSE "operation_update"
                  Eligible(op) == op.type = type /\ EndedWith(op) = "completed"
              IN /\ Held(Eligible) # <<>> => res.err = Nil /\ res.ops = <<Held(Eligible)[1]>>
                 /\ Held(Eligible) = <<>> => res.err.kind = "NotFound" /\ res.ops = <<>>)
    /\ [][LET Eligible(op) == EndedWith(op) \in {"completed", "failed"}
              Finished(op) == op.state \in {OperationStateCompleted, OperationStateFailed}
          IN \* the listing is empty and the accessor returns
             /\ (pend' = pend /\ operations' = operations /\ progress' = progress
                    /\ res'.fn = "GetLastFinishedOperation" /\ res'.listErr = Nil) =>
                    /\ Held(Eligible) = <<>>
                    /\ res'.err.kind = "NotFound"
                    /\ res'.ops = <<>>
             \* the listing has an operation and the accessor goes on
             /\ \A c \in Went :
                    pend'[c].fn = "GetLastFinishedOperation" =>
                        /\ pend'[c].calls[1].err = Nil
                        /\ pend'[c].stored = operations
                        /\ Held(Eligible) # <<>>
                        /\ Held(Eligible) = SelectSeq(operations, Finished)
             \* the accessor returns the operation it was given
             /\ \A c \in Ended :
                    pend[c].fn = "GetLastFinishedOperation" =>
                        /\ res'.listed = <<SelectSeq(pend[c].stored, Finished)[1]>>
                        /\ res'.err = Nil => res'.ops = res'.listed]_vars

\* an update operation ended with FailOperation was returned by
\* GetLastFinishedOperation
C20_Witness ==
    /\ res.fn = "GetLastFinishedOperation"
    /\ res.err = Nil
    /\ Len(res.ops) = 1
    /\ res.ops[1].type = "operation_update"
    /\ res.ops[1].state = "failed"
    /\ EndedWith(res.ops[1]) = "failed"

\* C21: a CompleteOperation, FailOperation or FailOperationAndResetCluster
\* call neither adds nor removes an operation, leaves the id (the key), the
\* type and the creation time of every operation as they are, and leaves the
\* state and the progress entries of every operation other than the one its
\* key addresses as they are.
C21_TransitionFrame ==
    [][clock' = clock + 1 =>
          /\ Len(operations') = Len(operations)
          /\ \A i \in 1 .. Len(operations) :
                 /\ operations'[i].id = operations[i].id
                 /\ operations'[i].type = operations[i].type
                 /\ operations'[i].created = operations[i].created
                 /\ operations[i].id # HandlerKey.OperationID =>
                        operations'[i].state = operations[i].state
          /\ \A o \in DOMAIN progress :
                 o # HandlerKey.OperationID => progress'[o] = progress[o]
          /\ DOMAIN progress' = DOMAIN progress]_vars

\* the older of two operations has been failed by FailOperationAndResetCluster
\* while the newer one is in progress
C21_Witness ==
    /\ Len(operations) = 2
    /\ res.fn = "FailOperationAndResetCluster"
    /\ res.err = Nil
    /\ res.key.OperationID = operations[2].id
    /\ operations[2].state = "failed"
    /\ operations[1].state = "in_progress"
    /\ progress[operations[1].id] = <<>>

Accessors ==
    FilterAccessors \cup {"GetOperationWithProgress", "GetWizardOperation",
                          "GetWizardCluster", "GetExpandOperation"}

MutatingCalls == {"SetOperationState", "ActivateSite", "CreateAccount"}

\* C22: an accessor (the filter-based ones, GetOperationWithProgress,
\* GetWizardOperation, GetWizardCluster, GetExpandOperation) makes no
\* SetOperationState, ActivateSite or CreateAccount call, and the operations,
\* the progress entries, the cluster's state and the accounts are after the
\* query what they were before it, whether it succeeds or returns an error.
C22_AccessorsReadOnly ==
    [][/\ res'.fn \in Accessors =>
             /\ UNCHANGED <<operations, progress, siteActive, accounts>>
             /\ \A i \in 1 .. Len(calls') : calls'[i].call \notin MutatingCalls
       /\ \A c \in Callers :
             (pend'[c].fn \in Accessors /\ pend'[c].calls # pend[c].calls) =>
                 /\ UNCHANGED <<operations, progress, siteActive, accounts>>
                 /\ \A i \in 1 .. Len(pend'[c].calls) :
                        pend'[c].calls[i].call \notin MutatingCalls]_vars

\* GetOperationWithProgress has returned the error of the progress lookup for
\* an operation that exists and has progress
C22_Witness ==
    /\ res.fn = "GetOperationWithProgress"
    /\ res.key.OperationID \in OpIDs
    /\ progress[res.key.OperationID] # <<>>
    /\ Len(calls) = 2
    /\ calls[2].call = "GetSiteOperationProgress"
    /\ res.err # Nil

ProgressAccessors ==
    {"GetInstallOperation", "GetLastUninstallOperation", "GetLastOperation",
     "GetLastFinishedOperation", "GetOperationWithProgress"}

\* C23: when the listing or lookup of the operation, or the fetch of its
\* progress, returns an error, an accessor that returns an operation with its
\* progress returns that error and neither operation nor progress; the
\* backend's error is turned neither into success nor into another error.
C23_AllOrNothing ==
    res.fn \in ProgressAccessors =>
        /\ \A i \in 1 .. Len(calls) :
               calls[i].err # Nil =>
                   /\ res.err # Nil
                   /\ Cause(res.err) = calls[i].err
                   /\ res.ops = <<>>
                   /\ res.progress = NoProgress
                   /\ i = Len(calls)
        /\ res.err = Nil => Len(res.ops) = 1 /\ res.progress # NoProgress

\* GetLastOperation listed an operation and the fetch of its progress failed
C23_Witness ==
    /\ res.fn = "GetLastOperation"
    /\ Len(res.listed) = 1
    /\ Len(calls) = 2
    /\ calls[2].err.kind = "ConnectionProblem"
    /\ res.err.kind = "ConnectionProblem"
    /\ res.ops = <<>>

SystemAccounts(stored) == {i \in 1 .. Len(stored) : stored[i].Org = SystemAccountOrg}

\* C24: UpsertSystemAccount calls CreateAccount exactly when the listing of
\* the accounts succeeded and no account listed has the system organisation;
\* when an account has it, that account is returned and none is stored; after
\* a successful call exactly one system account is stored and it is the one
\* the call returned, so successive calls return the same account.
C24_UpsertIdempotent ==
    [][\* the call returns after the listing: nothing is created
       /\ (pend' = pend /\ res'.fn = "UpsertSystemAccount") =>
              /\ Len(calls') = 1
              /\ calls'[1].call = "GetAccounts"
              /\ accounts' = accounts
              /\ calls'[1].err # Nil \/ SystemAccounts(accounts) # {}
              /\ calls'[1].err # Nil => res'.err # Nil /\ res'.ops = <<>>
              /\ calls'[1].err = Nil =>
                     /\ res'.err = Nil
                     /\ Cardinality(SystemAccounts(accounts)) = 1
                     /\ \A i \in SystemAccounts(accounts) : res'.ops = <<accounts[i]>>
       \* the call goes on to CreateAccount: no account listed is the system's
       /\ \A c \in Went :
              pend'[c].fn = "UpsertSystemAccount" =>
                  /\ pend'[c].calls[1].err = Nil
                  /\ pend'[c].stored = accounts
                  /\ SystemAccounts(accounts) = {}
                  /\ accounts' = accounts
       \* the call returns after CreateAccount
       /\ \A c \in Ended :
              pend[c].fn = "UpsertSystemAccount" =>
                  /\ Len(calls') = 2
                  /\ calls'[2].call = "CreateAccount"
                  /\ res'.err = Wrap(calls'[2].err)
                  /\ res'.err = Nil =>
                         /\ Cardinality(SystemAccounts(accounts')) = 1
                         /\ \A i \in SystemAccounts(accounts') : res'.ops = <<accounts'[i]>>
                  /\ res'.err # Nil => res'.ops = <<>> /\ accounts' = accounts]_vars

\* a second call returned the system account the first one created, after
\* another organisation's account
C24_Witness ==
    /\ res.fn = "UpsertSystemAccount"
    /\ res.err = Nil
    /\ Len(calls) = 1
    /\ Len(accounts) = 2
    /\ accounts[1].Org # SystemAccountOrg
    /\ res.ops = <<Account(SystemAccountID, SystemAccountOrg)>>

Checks(log) == {i \in 1 .. Len(log) : log[i].ev = "check"}
Invocations(log) == {i \in 1 .. Len(log) : log[i].ev = "invoke"}

\* the authorization of a call was denied: the last of its checks failed
Denied(log) == \E i \in Checks(log) : log[i].err # Nil /\ \A j \in Checks(log) : j <= i

\* C25: every method of OperatorACL checks the caller's permissions before it
\* invokes the wrapped operator, and when the permission is denied it invokes
\* nothing and returns the denial.
C25_CheckedBeforeDelegated ==
    acl.method # "" =>
        /\ \A i \in Invocations(acl.log) : \E j \in Checks(acl.log) : j < i
        /\ Denied(acl.log) =>
               /\ Invocations(acl.log) = {}
               /\ acl.err.kind = "AccessDenied"
               /\ acl.err = Wrap(acl.log[Len(acl.log)].err)

\* C26: what ParseChartFilename returns for the filename ToChartFilename
\* built of a name and a version is that name and that version, without
\* error, whether or not they contain "-".
C26_ParseInvertsToChartFilename ==
    chart.stage = "parsed" =>
        /\ chart.parsed.err = Nil
        /\ chart.parsed.name = chart.name
        /\ chart.parsed.version = chart.version

\* C27: GetLastShrinkOperation returns NotFound when the cluster has no
\* operations or when its most recent operation is not a shrink, and returns an
\* operation only when the most recent operation of all is a shrink.
C27_LastShrinkIsLastOverall ==
    res.fn = "GetLastShrinkOperation" =>
        /\ (res.listErr = Nil /\ (Len(operations) = 0
                                    \/ MostRecent(operations).type # OperationShrink)) =>
               /\ res.err.kind = "NotFound"
               /\ res.ops = <<>>
        /\ Len(res.ops) > 0 => MostRecent(operations).type = OperationShrink

\* C28: when the Fail step of FailOperationAndResetCluster succeeds,
\* ActivateSite is invoked once, after SetOperationState, with the account and
\* the site domain of the operation's key; when ActivateSite returns an error
\* the operation is left Failed and the error is returned.
C28_ResetAfterFail ==
    /\ [](res.fn = "FailOperationAndResetCluster" /\ calls[1].err = Nil =>
             /\ Len(calls) = 2
             /\ calls[1].call = "SetOperationState"
             /\ calls[1].key = res.key
             /\ calls[2].call = "ActivateSite"
             /\ calls[2].key.AccountID = res.key.AccountID
             /\ calls[2].key.SiteDomain = res.key.SiteDomain
             /\ res.err = Wrap(calls[2].err)
             /\ calls[2].err = Nil => siteActive)
    /\ [][/\ \A c \in Went :
                pend'[c].fn = "FailOperationAndResetCluster" =>
                    /\ pend'[c].calls[1].err = Nil
                    /\ \A id \in OpIDs :
                           pend'[c].arg[1] = id => OpState(id)' = OperationStateFailed
          /\ \A c \in Ended :
                pend[c].fn = "FailOperationAndResetCluster" =>
                    /\ calls' = pend[c].calls \o <<calls'[2]>>
                    /\ operations' = operations
                    /\ progress' = progress]_vars

\* ActivateSite has returned an error after the operation was failed
C28_Witness ==
    /\ res.fn = "FailOperationAndResetCluster"
    /\ Len(calls) = 2
    /\ calls[2].err \in BackendErrors
    /\ res.err.kind = "ConnectionProblem"
    /\ OpState(res.key.OperationID) = OperationStateFailed
    /\ ~siteActive

\* C29: every output event passed to the stream follows the started event
\* that carries the same sequence number, however the workers forwarding the
\* output interleave with the request's own thread.
C29_StartedBeforeOutput ==
    \A i \in 1 .. Len(stream) :
        stream[i].type = "ExecOutput" =>
            \E j \in 1 .. i - 1 :
                /\ stream[j].type = "ExecStarted"
                /\ stream[j].seq = stream[i].seq

\* the three getters applied to a context
Getters(c) == <<UserFromContext(c), OperatorFromContext(c), SessionFromContext(c)>>

\* the getters are the same on the two contexts, but for getter n
SameBut(n, c, d) == \A m \in (1 .. 3) \ {n} : Getters(c)[m] = Getters(d)[m]

\* C30: after NewUserContext, NewOperatorContext or NewSessionContext the
\* matching getter returns the value attached, and the two other getters
\* return what they return on the parent context, whatever was attached
\* before and in whatever order.
C30_SlotsIndependent ==
    [][(Len(ctx') = Len(ctx) + 1 /\ ctx'[1].key.type = "contextKey") =>
          LET val == ctx'[1].val
          IN /\ val.type = "string" =>
                    UserFromContext(ctx') = val /\ SameBut(1, ctx', ctx)
             /\ val.type = "Operator" =>
                    OperatorFromContext(ctx') = val /\ SameBut(2, ctx', ctx)
             /\ val.type = "WebSession" =>
                    SessionFromContext(ctx') = val /\ SameBut(3, ctx', ctx)]_vars

\* the user is attached over an operator attached over another user, and the
\* operator is retrieved
C30_Witness ==
    /\ Len(ctx) = 3
    /\ ctx[1].key = userContext /\ ctx[1].val = StringValue("bob")
    /\ ctx[2].key = operatorContext
    /\ ctx[3].key = userContext /\ ctx[3].val = StringValue("alice")
    /\ got.fn = "OperatorFromContext"
    /\ got.value = ctx[2].val

\* the wrapped operator's method was invoked during the call
Invoked(log, method) == \E i \in Invocations(log) : log[i].method = method

\* C31 as stated: through OperatorACL the wrapped operator's UpsertRole is
\* never invoked with a role that carries the system label, and its DeleteRole
\* is never invoked for a role that carries the system label, whatever the
\* caller's permissions.
C31_SystemRolesDenied ==
    /\ []((acl.method = "UpsertRole" /\ acl.role.system) => ~Invoked(acl.log, "UpsertRole"))
    /\ [][(deleting # NoDeleting /\ deleting' = NoDeleting) =>
              ~Addressed(roles, deleting.role.name).system]_vars

\* the role methods: the action on the cluster, else the actions on roles
RoleMethods ==
    [UpsertRole |-> <<VerbUpdate, KindRole, <<VerbCreate, VerbUpdate>> >>,
     GetRole |-> <<VerbRead, KindRole, <<VerbRead>> >>,
     GetRoles |-> <<VerbRead, KindRole, <<VerbList, VerbRead>> >>,
     DeleteRole |-> <<VerbUpdate, KindRole, <<VerbDelete>> >>]

\* what a role or connector method asks for
Guard(method) ==
    IF method \in DOMAIN RoleMethods THEN RoleMethods[method] ELSE ConnectorMethods[method]

ClusterPermitted(method, perms) ==
    ClusterAction(perms, SiteDomain, KindCluster, Guard(method)[1]) = Nil

ResourceDenied(method, perms) ==
    {i \in 1 .. Len(Guard(method)[3]) :
        Action(perms, Guard(method)[2], Guard(method)[3][i]) # Nil}

\* the cluster's action is permitted, or every action on the resource is
Permitted(method, perms) ==
    ClusterPermitted(method, perms) \/ ResourceDenied(method, perms) = {}

FallbackMethods == DOMAIN RoleMethods \cup DOMAIN ConnectorMethods

\* C32 as stated: a role or connector method is delegated to the wrapped
\* operator exactly when the action on the cluster is permitted or every
\* listed action on the resource is; when the action on the cluster and one
\* of those on the resource are denied the wrapped operator is not invoked.
C32_DelegatedIffPermitted ==
    acl.method \in FallbackMethods =>
        /\ Invoked(acl.log, acl.method) <=> Permitted(acl.method, acl.perms)
        /\ ~Permitted(acl.method, acl.perms) => Invocations(acl.log) = {}

\* C32 as amended: when the action on the cluster and one of those on the
\* resource are denied the wrapped operator is not invoked; otherwise the
\* call is delegated, except that UpsertRole is not delegated for a role that
\* carries the system label, and that DeleteRole first invokes the wrapped
\* operator's GetRole and is delegated only when that returned a role that
\* does not carry the label.
C32_DelegatedIffPermittedAndKept ==
    acl.method \in FallbackMethods =>
        /\ ~Permitted(acl.method, acl.perms) => Invocations(acl.log) = {}
        /\ Invoked(acl.log, acl.method) <=>
               /\ Permitted(acl.method, acl.perms)
               /\ acl.method = "UpsertRole" => ~acl.role.system
               /\ acl.method = "DeleteRole" =>
                      /\ ~acl.role.system
                      /\ \E i \in Invocations(acl.log) :
                             acl.log[i].method = "GetRole" /\ acl.log[i].err = Nil
        /\ acl.method = "DeleteRole" =>
               (Invoked(acl.log, "GetRole") <=> Permitted(acl.method, acl.perms))

\* UpsertRole was delegated for a caller without the cluster's update
\* permission who may create and update roles
C32_Witness ==
    /\ acl.method = "UpsertRole"
    /\ ~ClusterPermitted("UpsertRole", acl.perms)
    /\ ResourceDenied("UpsertRole", acl.perms) = {}
    /\ Invoked(acl.log, "UpsertRole")
    /\ Len(acl.log) = 4

\* the SetOperationState requests of the most recent handler
StateRequests == {i \in 1 .. Len(calls) : calls[i].call = "SetOperationState"}

\* C33: every SetOperationState request made by CompleteOperation,
\* FailOperation and FailOperationAndResetCluster pairs operation state
\* completed with a progress entry of state completed and operation state
\* failed with a progress entry of state failed, and the entry carries the
\* site domain and the operation id of the key the handler was given.
C33_TerminalPairs ==
    res.fn \in {"CompleteOperation", "FailOperation", "FailOperationAndResetCluster"} =>
        /\ StateRequests # {}
        /\ \A i \in StateRequests :
               /\ calls[i].key = res.key
               /\ calls[i].state \in {OperationStateCompleted, OperationStateFailed}
               /\ calls[i].state = OperationStateCompleted =>
                      calls[i].progress.State = ProgressStateCompleted
               /\ calls[i].state = OperationStateFailed =>
                      calls[i].progress.State = ProgressStateFailed
               /\ calls[i].progress.SiteDomain = res.key.SiteDomain
               /\ calls[i].progress.OperationID = res.key.OperationID

\* the older of two operations was failed after the newer one was completed
C33_Witness ==
    /\ Len(operations) = 2
    /\ res.fn = "FailOperation"
    /\ res.key.OperationID = operations[2].id
    /\ calls[1].state = OperationStateFailed
    /\ calls[1].progress.State = ProgressStateFailed
    /\ calls[1].progress.OperationID = operations[2].id
    /\ OpState(operations[1].id) = OperationStateCompleted
    /\ progress[operations[1].id][1].State = ProgressStateCompleted

\* the positions of the expand operations in a listing
Expands(listed) == {i \in 1 .. Len(listed) : listed[i].type = OperationExpand}

\* C34: GetExpandOperation returns the first expand operation in the order the
\* backend lists the operations of the local cluster, whatever its state, and
\* NotFound when none is listed; an error of GetLocalSite or of
\* GetSiteOperations is returned and no operation is.
C34_FirstExpand ==
    res.fn = "GetExpandOperation" =>
        LET failed == {i \in 1 .. Len(res.reads) : res.reads[i].err # Nil}
        IN /\ res.reads[1].call = "GetLocalSite"
           /\ failed # {} =>
                  /\ failed = {Len(res.reads)}
                  /\ res.err = Wrap(res.reads[Len(res.reads)].err)
                  /\ res.ops = <<>>
           /\ failed = {} =>
                  /\ Len(res.reads) = 2
                  /\ res.reads[2].call = "GetSiteOperations"
                  /\ res.listed = operations
                  /\ IF Expands(operations) = {}
                     THEN res.err.kind = "NotFound" /\ res.ops = <<>>
                     ELSE /\ res.err = Nil
                          /\ \E i \in Expands(operations) :
                                 /\ \A j \in Expands(operations) : i <= j
                                 /\ res.ops = <<operations[i]>>

\* of two expand operations the one listed first, which has completed, was
\* returned and the one still in progress was not
C34_Witness ==
    /\ res.fn = "GetExpandOperation"
    /\ Expands(operations) = {1, 2}
    /\ operations[1].state = OperationStateCompleted
    /\ operations[2].state # OperationStateCompleted
    /\ res.err = Nil
    /\ res.ops = <<operations[1]>>

====
